---------------------------- MODULE Spec2Model ----------------------------
(***************************************************************************)
(* Drifting Minds results page (DM_results_viz.py, DM_results_viz_demo.py) *)
(*                                                                         *)
(* Numbers: Python floats are modelled as fixed-point integers in units of *)
(* 1/Unit.  Unit = 9900 is the least common multiple of the divisors the   *)
(* normalizers use (5, 3, 100, 99, 60), so every normalizer is exact on    *)
(* whole-number raw values.  NaN (numpy.nan) and NoneV (Python None) are   *)
(* sentinels outside the range of any modelled number; Inf is numpy.inf.   *)
(***************************************************************************)
EXTENDS Integers, Sequences, FiniteSets, TLC

VARIABLES
    \* --- normalizer harness
    nraw, nfn, nres,
    \* --- page render (query param -> record routing, fetch, panels)
    pc, idParam, net, posts, record, shown, raised, step, popOk, LANG,
    \* --- computations on one participant record
    arec, aop, aout,
    \* --- the keep-best scan over (distance, hit ratio) candidates
    pairs, si, sbest,
    \* --- one call of a helper function: argument, function, result
    cin, cfn, cout,
    \* --- the export capture script in the browser
    cap,
    \* --- the demo page (DM_results_viz_demo.py)
    demo

vars == <<nraw, nfn, nres, pc, idParam, net, posts, record, shown, raised, step, popOk, LANG,
          arec, aop, aout, pairs, si, sbest, cin, cfn, cout, cap, demo>>
normVars == <<nraw, nfn, nres>>
recVars == <<arec, aop, aout>>
selVars == <<pairs, si, sbest>>
pageVars == <<pc, idParam, net, posts, record, shown, raised, step, popOk, LANG>>
callVars == <<cin, cfn, cout>>

-----------------------------------------------------------------------------
(* Number representation *)

Unit == 9900
NaN == -999999999
NoneV == -999999998
Inf == 999999999

CAP_MIN == 60

\* bounds on the raw values the harness enumerates
MaxRawInt == 121
MaxHH == 2

np_isnan(v) == v = NaN

np_clip(v, lo, hi) ==
    IF np_isnan(v) THEN NaN
    ELSE IF v < lo THEN lo
    ELSE IF v > hi THEN hi
    ELSE v

-----------------------------------------------------------------------------
(* Raw values of unknown shape.                                            *)
(*   k = "none"     Python None                                            *)
(*   k = "nan"      float('nan')                                           *)
(*   k = "bool"     True / False          (n = 1 / 0)                      *)
(*   k = "num"      int or float          (n = value * Unit)               *)
(*   k = "snum"     decimal string, float(s) succeeds  (n = value * Unit)  *)
(*   k = "sempty"   ""                                                     *)
(*   k = "sblank"   " "  (whitespace only)                                 *)
(*   k = "sna"      "NA"                                                   *)
(*   k = "stext"    text without any digit, e.g. "abc"                     *)
(*   k = "stextnum" text with an embedded whole number n, e.g. "about 20"  *)
(*   k = "shhmm"    "H:MM"                (n = hh, m = mm)                 *)
(*   k = "sunit"    "<n>h" or "<n> min"   (n = count, m = 60 or 1)         *)

Raw(k, n, m) == [k |-> k, n |-> n, m |-> m]

RNone == Raw("none", 0, 0)
RNaN == Raw("nan", 0, 0)
REmpty == Raw("sempty", 0, 0)
RBlank == Raw("sblank", 0, 0)
RNA == Raw("sna", 0, 0)
RText == Raw("stext", 0, 0)
RNum(n) == Raw("num", n, 0)
RStr(n) == Raw("snum", n, 0)

IsStr(x) ==
    x.k \in {"snum", "sempty", "sblank", "sna", "stext", "stextnum", "shhmm", "sunit"}
IsNumber(x) == x.k \in {"bool", "num", "nan"}

\* float(x) raises ValueError / TypeError
FloatRaises(x) ==
    x.k \in {"none", "sempty", "sblank", "sna", "stext", "stextnum", "shhmm", "sunit"}

\* float(x) when it does not raise
FloatOf(x) ==
    IF x.k = "nan" THEN NaN
    ELSE IF x.k = "bool" THEN x.n * Unit
    ELSE x.n

_to_float(x) == IF FloatRaises(x) THEN NaN ELSE FloatOf(x)

norm_bool(x) ==
    IF FloatRaises(x) THEN NaN
    ELSE IF FloatOf(x) # NaN /\ 2 * FloatOf(x) >= Unit THEN Unit
    ELSE 0

\* re.search(r'[-+]?\d+(\.\d+)?', s): the first numeric token of a string
HasNumToken(x) == x.k \in {"snum", "stextnum", "shhmm", "sunit"}
NumToken(x) == IF x.k = "snum" THEN x.n ELSE x.n * Unit

norm_eq(x, value) ==
    IF x.k = "none" THEN NaN
    ELSE IF IsStr(x) THEN
        IF x.k \in {"sempty", "sblank"} THEN NaN
        ELSE IF HasNumToken(x) THEN (IF NumToken(x) = value THEN Unit ELSE 0)
        ELSE 0
    ELSE IF FloatOf(x) # NaN /\ FloatOf(x) = value THEN Unit
    ELSE 0

norm_1_4(x) ==
    LET v == _to_float(x) IN
    IF np_isnan(v) THEN NaN ELSE np_clip((v - Unit) \div 3, 0, Unit)

norm_1_6(x) ==
    LET v == _to_float(x) IN
    IF np_isnan(v) THEN NaN ELSE np_clip((v - Unit) \div 5, 0, Unit)

norm_0_100(x) ==
    LET v == _to_float(x) IN
    IF np_isnan(v) THEN NaN ELSE np_clip(v \div 100, 0, Unit)

norm_1_100_noclip(x) ==
    LET v == _to_float(x) IN
    IF np_isnan(v) THEN NaN ELSE (v - Unit) \div 99

norm_1_100(x) ==
    LET v == _to_float(x) IN
    IF np_isnan(v) THEN NaN ELSE np_clip((v - Unit) \div 99, 0, Unit)

_to_minutes_relaxed_always_minutes(x) ==
    IF IsNumber(x) THEN
        (IF FloatOf(x) # NaN /\ 0 <= FloatOf(x) /\ FloatOf(x) <= Unit
         THEN NoneV ELSE FloatOf(x))
    ELSE IF x.k = "none" THEN NaN
    ELSE IF x.k \in {"sempty", "sblank", "sna"} THEN NaN
    ELSE IF x.k = "shhmm" THEN (x.n * 60 + x.m) * Unit
    ELSE IF x.k = "sunit" THEN x.n * x.m * Unit
    ELSE IF x.k = "snum" THEN x.n
    ELSE NaN

\* minutes (fixed-point), NaN, or NoneV when the value is already normalized
_to_minutes_relaxed(x) ==
    IF IsNumber(x) THEN
        (IF FloatOf(x) # NaN /\ 0 <= FloatOf(x) /\ FloatOf(x) <= Unit
         THEN NoneV ELSE FloatOf(x))
    ELSE IF x.k = "none" THEN NaN
    ELSE IF x.k \in {"sempty", "sblank", "sna"} THEN NaN
    ELSE IF x.k = "shhmm" THEN (x.n * 60 + x.m) * Unit
    ELSE IF x.k = "sunit" THEN x.n * x.m * Unit
    ELSE IF x.k = "snum" THEN
        (IF 0 <= x.n /\ x.n <= Unit THEN NoneV ELSE x.n)
    ELSE NaN

norm_latency_auto(x, cap_minutes) ==
    LET mins == _to_minutes_relaxed(x) IN
    IF mins = NoneV THEN np_clip(_to_float(x), 0, Unit)
    ELSE IF np_isnan(mins) THEN NaN
    ELSE np_clip(mins \div cap_minutes, 0, Unit)


-----------------------------------------------------------------------------
(* Profile registry (PROFILES) and dimension registry (DIM_BAR_CONFIG).    *)
(* Targets and bounds are written in hundredths: Pct(70) is 0.70.          *)
(* Weights are in tenths: 12 is 1.2.                                       *)

Pct(p) == (p * Unit) \div 100

\* one feature of a profile; absent optional keys are empty
Feat(key, norm, kw, target, weight, hit_op, only_if) ==
    [type |-> "var", key |-> key, norm |-> norm, kw |-> kw, target |-> target,
     weight |-> weight, hit_op |-> hit_op, only_if |-> only_if,
     only_if_all |-> <<>>, only_if_any |-> <<>>,
     or_if_any |-> <<>>, or_if_all |-> <<>>, or_value |-> NoneV]

Fields ==
    {"freq_percept_intense", "freq_percept_narrative",
     "freq_absorbed", "degreequest_vividness",
     "degreequest_bizarreness", "sleep_latency",
     "degreequest_sleepiness", "trajectories", "freq_scenario",
     "anytime_20", "degreequest_immersive", "degreequest_bizarre",
     "freq_replay", "freq_think_ordinary",
     "timequest_think_ordinary", "freq_think_seq_ordinary",
     "timequest_think_seq_ordinary", "freq_ruminate",
     "freq_negative", "anxiety", "degreequest_emotionality",
     "degreequest_spontaneity", "freq_think_nocontrol",
     "freq_think_bizarre", "freq_think_seq_bizarre",
     "timequest_think_bizarre", "freq_percept_dull",
     "timequest_percept_dull", "timequest_percept_intense",
     "freq_hear_env", "timequest_hear_env", "timequest_absorbed",
     "freq_planning", "anytime_24", "degreequest_immersiveness",
     "freq_percept_fleeting", "degreequest_fleetingness",
     "freq_percept_precise", "freq_percept_real",
     "freq_percept_bizarre", "freq_actor", "freq_percept_imposed",
     "freq_spectator", "freq_positive"}

Dreamweaver_features ==
    <<
        Feat(<<"freq_percept_intense">>, "norm_1_6", [cap_minutes |-> 0, value |-> 0],
             Pct(70), 10, "", <<>>),
        Feat(<<"freq_percept_narrative">>, "norm_1_6", [cap_minutes |-> 0, value |-> 0],
             Pct(80), 10, "", <<>>),
        Feat(<<"freq_absorbed">>, "norm_1_6", [cap_minutes |-> 0, value |-> 0],
             Pct(70), 10, "", <<>>),
        Feat(<<"degreequest_vividness">>, "norm_1_6", [cap_minutes |-> 0, value |-> 0],
             Pct(70), 8, "", <<>>),
        Feat(<<"degreequest_bizarreness">>, "norm_1_6", [cap_minutes |-> 0, value |-> 0],
             Pct(70), 8, "", <<>>)
    >>

QuickDiver_features ==
    <<
        Feat(<<"sleep_latency">>, "norm_latency_auto", [cap_minutes |-> CAP_MIN, value |-> 0],
             Pct(5), 12, "lte", <<>>),
        Feat(<<"degreequest_sleepiness">>, "norm_1_6", [cap_minutes |-> 0, value |-> 0],
             Pct(60), 8, "", <<>>),
        Feat(<<"trajectories">>, "norm_eq", [cap_minutes |-> 0, value |-> 2 * Unit],
             Pct(100), 12, "", <<>>)
    >>

Fantasizer_features ==
    <<
        Feat(<<"freq_scenario">>, "norm_1_6", [cap_minutes |-> 0, value |-> 0],
             Pct(80), 14, "", <<>>),
        Feat(<<"anytime_20">>, "norm_1_100", [cap_minutes |-> 0, value |-> 0],
             Pct(60), 9, "", <<>>),
        Feat(<<"degreequest_vividness">>, "norm_1_6", [cap_minutes |-> 0, value |-> 0],
             Pct(65), 9, "", <<>>),
        Feat(<<"degreequest_immersive">>, "norm_1_6", [cap_minutes |-> 0, value |-> 0],
             Pct(60), 8, "", <<>>),
        Feat(<<"degreequest_bizarre">>, "norm_1_6", [cap_minutes |-> 0, value |-> 0],
             Pct(55), 5, "", <<>>)
    >>

Archivist_features ==
    <<
        Feat(<<"freq_replay">>, "norm_1_6", [cap_minutes |-> 0, value |-> 0],
             Pct(90), 13, "", <<>>),
        Feat(<<"freq_think_ordinary">>, "norm_1_6", [cap_minutes |-> 0, value |-> 0],
             Pct(90), 10, "", <<[key |-> <<"timequest_think_ordinary">>, norm |-> "norm_1_100", kw |-> [cap_minutes |-> 0, value |-> 0], op |-> "between",
              lo |-> Pct(0), hi |-> Pct(50), value |-> 0, values |-> {}]>>),
        Feat(<<"freq_think_seq_ordinary">>, "norm_1_6", [cap_minutes |-> 0, value |-> 0],
             Pct(90), 10, "", <<[key |-> <<"timequest_think_seq_ordinary">>, norm |-> "norm_1_100", kw |-> [cap_minutes |-> 0, value |-> 0], op |-> "between",
              lo |-> Pct(0), hi |-> Pct(50), value |-> 0, values |-> {}]>>)
    >>

Worrier_features ==
    <<
        Feat(<<"freq_ruminate">>, "norm_1_6", [cap_minutes |-> 0, value |-> 0],
             Pct(85), 14, "", <<>>),
        Feat(<<"freq_negative">>, "norm_1_6", [cap_minutes |-> 0, value |-> 0],
             Pct(70), 9, "", <<>>),
        Feat(<<"anxiety">>, "norm_1_100", [cap_minutes |-> 0, value |-> 0],
             Pct(70), 9, "", <<>>),
        Feat(<<"sleep_latency">>, "norm_latency_auto", [cap_minutes |-> CAP_MIN, value |-> 0],
             Pct(35), 11, "", <<>>),
        Feat(<<"degreequest_emotionality">>, "norm_1_6", [cap_minutes |-> 0, value |-> 0],
             Pct(65), 8, "", <<>>),
        Feat(<<"degreequest_spontaneity">>, "norm_1_6", [cap_minutes |-> 0, value |-> 0],
             Pct(40), 6, "", <<>>)
    >>

Freewheeler_features ==
    <<
        Feat(<<"freq_think_nocontrol">>, "norm_1_6", [cap_minutes |-> 0, value |-> 0],
             Pct(80), 11, "", <<>>),
        Feat(<<"freq_think_bizarre">>, "norm_1_6", [cap_minutes |-> 0, value |-> 0],
             Pct(70), 8, "", <<>>),
        Feat(<<"freq_think_seq_bizarre">>, "norm_1_6", [cap_minutes |-> 0, value |-> 0],
             Pct(70), 8, "", <<>>),
        Feat(<<"degreequest_spontaneity">>, "norm_1_6", [cap_minutes |-> 0, value |-> 0],
             Pct(70), 10, "", <<>>),
        Feat(<<"degreequest_bizarreness">>, "norm_1_6", [cap_minutes |-> 0, value |-> 0],
             Pct(70), 8, "", <<>>)
    >>

QuietMind_features ==
    <<
        Feat(<<"degreequest_vividness">>, "norm_1_6", [cap_minutes |-> 0, value |-> 0],
             Pct(25), 10, "lte", <<>>),
        Feat(<<"degreequest_bizarre">>, "norm_1_6", [cap_minutes |-> 0, value |-> 0],
             Pct(25), 10, "lte", <<>>),
        Feat(<<"degreequest_immersive">>, "norm_1_6", [cap_minutes |-> 0, value |-> 0],
             Pct(30), 9, "lte", <<>>),
        Feat(<<"sleep_latency">>, "norm_latency_auto", [cap_minutes |-> CAP_MIN, value |-> 0],
             Pct(18), 5, "lte", <<>>)
    >>

RadioTuner_features ==
    <<
        Feat(<<"freq_think_ordinary">>, "norm_1_6", [cap_minutes |-> 0, value |-> 0],
             Pct(90), 10, "", <<[key |-> <<"timequest_think_ordinary">>, norm |-> "norm_1_100", kw |-> [cap_minutes |-> 0, value |-> 0], op |-> "between",
              lo |-> Pct(0), hi |-> Pct(50), value |-> 0, values |-> {}]>>),
        Feat(<<"freq_think_bizarre">>, "norm_1_6", [cap_minutes |-> 0, value |-> 0],
             Pct(90), 10, "", <<[key |-> <<"timequest_think_bizarre">>, norm |-> "norm_1_100", kw |-> [cap_minutes |-> 0, value |-> 0], op |-> "between",
              lo |-> Pct(51), hi |-> Pct(100), value |-> 0, values |-> {}]>>),
        Feat(<<"freq_percept_dull">>, "norm_1_6", [cap_minutes |-> 0, value |-> 0],
             Pct(90), 10, "", <<[key |-> <<"timequest_percept_dull">>, norm |-> "norm_1_100", kw |-> [cap_minutes |-> 0, value |-> 0], op |-> "between",
              lo |-> Pct(0), hi |-> Pct(50), value |-> 0, values |-> {}]>>),
        Feat(<<"freq_percept_intense">>, "norm_1_6", [cap_minutes |-> 0, value |-> 0],
             Pct(90), 10, "", <<[key |-> <<"timequest_percept_intense">>, norm |-> "norm_1_100", kw |-> [cap_minutes |-> 0, value |-> 0], op |-> "between",
              lo |-> Pct(51), hi |-> Pct(100), value |-> 0, values |-> {}]>>),
        Feat(<<"freq_hear_env">>, "norm_1_6", [cap_minutes |-> 0, value |-> 0],
             Pct(90), 10, "", <<[key |-> <<"timequest_hear_env">>, norm |-> "norm_1_100", kw |-> [cap_minutes |-> 0, value |-> 0], op |-> "between",
              lo |-> Pct(0), hi |-> Pct(50), value |-> 0, values |-> {}]>>),
        Feat(<<"freq_absorbed">>, "norm_1_6", [cap_minutes |-> 0, value |-> 0],
             Pct(90), 10, "", <<[key |-> <<"timequest_absorbed">>, norm |-> "norm_1_100", kw |-> [cap_minutes |-> 0, value |-> 0], op |-> "between",
              lo |-> Pct(51), hi |-> Pct(100), value |-> 0, values |-> {}]>>)
    >>

Strategist_features ==
    <<
        Feat(<<"freq_planning">>, "norm_1_6", [cap_minutes |-> 0, value |-> 0],
             Pct(90), 12, "", <<>>),
        Feat(<<"freq_think_ordinary">>, "norm_1_6", [cap_minutes |-> 0, value |-> 0],
             Pct(80), 10, "", <<>>),
        Feat(<<"freq_think_seq_ordinary">>, "norm_1_6", [cap_minutes |-> 0, value |-> 0],
             Pct(80), 10, "", <<>>)
    >>

Sentinel_features ==
    <<
        Feat(<<"anytime_24">>, "norm_bool", [cap_minutes |-> 0, value |-> 0],
             Pct(100), 13, "", <<>>),
        Feat(<<"sleep_latency">>, "norm_latency_auto", [cap_minutes |-> CAP_MIN, value |-> 0],
             Pct(40), 3, "", <<>>),
        Feat(<<"degreequest_immersiveness">>, "norm_1_6", [cap_minutes |-> 0, value |-> 0],
             Pct(20), 3, "", <<>>)
    >>

FragmentedMind_features ==
    <<
        Feat(<<"freq_percept_fleeting">>, "norm_1_6", [cap_minutes |-> 0, value |-> 0],
             Pct(80), 12, "", <<>>),
        Feat(<<"freq_think_seq_bizarre">>, "norm_1_6", [cap_minutes |-> 0, value |-> 0],
             Pct(80), 10, "", <<>>),
        Feat(<<"degreequest_fleetingness">>, "norm_1_6", [cap_minutes |-> 0, value |-> 0],
             Pct(80), 12, "", <<>>)
    >>

Pragmatic_features ==
    <<
        Feat(<<"freq_think_ordinary">>, "norm_1_6", [cap_minutes |-> 0, value |-> 0],
             Pct(80), 10, "", <<>>),
        Feat(<<"freq_think_bizarre">>, "norm_1_6", [cap_minutes |-> 0, value |-> 0],
             Pct(20), 10, "", <<>>),
        Feat(<<"freq_think_nocontrol">>, "norm_1_6", [cap_minutes |-> 0, value |-> 0],
             Pct(20), 10, "", <<>>),
        Feat(<<"freq_think_seq_bizarre">>, "norm_1_6", [cap_minutes |-> 0, value |-> 0],
             Pct(20), 10, "", <<>>),
        Feat(<<"degreequest_bizarreness">>, "norm_1_6", [cap_minutes |-> 0, value |-> 0],
             Pct(20), 12, "", <<>>)
    >>

PROFILES ==
    <<
        [name |-> "Dreamweaver", features |-> Dreamweaver_features, must |-> <<>>, veto |-> <<>>, icon |-> "seahorse.svg"],
        [name |-> "Quick Diver", features |-> QuickDiver_features, must |-> <<>>, veto |-> <<>>, icon |-> "dolphin.svg"],
        [name |-> "Fantasizer", features |-> Fantasizer_features, must |-> <<>>, veto |-> <<>>, icon |-> "monkey.svg"],
        [name |-> "Archivist", features |-> Archivist_features, must |-> <<>>, veto |-> <<>>, icon |-> "elephant.svg"],
        [name |-> "Worrier", features |-> Worrier_features, must |-> <<>>, veto |-> <<>>, icon |-> "sheep.svg"],
        [name |-> "Freewheeler", features |-> Freewheeler_features, must |-> <<>>, veto |-> <<>>, icon |-> "otter.svg"],
        [name |-> "Quiet Mind", features |-> QuietMind_features, must |-> <<>>, veto |-> <<>>, icon |-> "sloth.svg"],
        [name |-> "Radio Tuner", features |-> RadioTuner_features, must |-> <<>>, veto |-> <<>>, icon |-> "chameleon.svg"],
        [name |-> "Strategist", features |-> Strategist_features, must |-> <<>>, veto |-> <<>>, icon |-> "octopus.svg"],
        [name |-> "Sentinel", features |-> Sentinel_features, must |-> <<>>, veto |-> <<>>, icon |-> "merkaat.svg"],
        [name |-> "Fragmented Mind", features |-> FragmentedMind_features, must |-> <<>>, veto |-> <<>>, icon |-> "hummingbird.svg"],
        [name |-> "Pragmatic", features |-> Pragmatic_features, must |-> <<>>, veto |-> <<>>, icon |-> "ant.svg"]
    >>

DIM_BAR_CONFIG ==
    <<
        [name |-> "Vivid", freq_keys |-> <<"freq_percept_intense", "freq_percept_precise", "freq_percept_real">>, weight_keys |-> <<"degreequest_vividness">>,
         invert_keys |-> {}, weight_mode |-> "standard"],
        [name |-> "Bizarre", freq_keys |-> <<"freq_think_bizarre", "freq_percept_bizarre", "freq_think_seq_bizarre">>, weight_keys |-> <<"degreequest_bizarreness">>,
         invert_keys |-> {}, weight_mode |-> "standard"],
        [name |-> "Immersive", freq_keys |-> <<"freq_absorbed", "freq_actor", "freq_percept_narrative">>, weight_keys |-> <<"degreequest_immersiveness">>,
         invert_keys |-> {}, weight_mode |-> "standard"],
        [name |-> "Spontaneous", freq_keys |-> <<"freq_percept_imposed", "freq_spectator">>, weight_keys |-> <<"degreequest_spontaneity">>,
         invert_keys |-> {}, weight_mode |-> "standard"],
        [name |-> "Emotional", freq_keys |-> <<"freq_positive", "freq_negative", "freq_ruminate">>, weight_keys |-> <<"degreequest_emotionality">>,
         invert_keys |-> {"freq_negative", "freq_ruminate"}, weight_mode |-> "emotion_bipolar"]
    >>
-----------------------------------------------------------------------------
(* Records: a mapping from field name to raw value; k = "missing" marks a  *)
(* key that is not in the record.                                          *)

RMissing == Raw("missing", 0, 0)

_get_first(rec, keys) ==
    LET present == {i \in 1..Len(keys) :
                        rec[keys[i]].k \notin {"missing", "none", "sempty", "sna"}}
    IN  IF present = {} THEN RNaN
        ELSE rec[keys[CHOOSE i \in present : \A j \in present : i <= j]]

\* norm_fn(raw, **kwargs)
CallNorm(norm, kw, raw) ==
    CASE norm = "norm_bool" -> norm_bool(raw)
      [] norm = "norm_eq" -> norm_eq(raw, kw.value)
      [] norm = "norm_1_4" -> norm_1_4(raw)
      [] norm = "norm_1_6" -> norm_1_6(raw)
      [] norm = "norm_0_100" -> norm_0_100(raw)
      [] norm = "norm_1_100" -> norm_1_100(raw)
      [] norm = "norm_latency_auto" -> norm_latency_auto(raw, kw.cap_minutes)

\* the comparison of _eval_condition, on the normalized value v
CondHolds(cond, v, op) ==
    IF v = NoneV \/ np_isnan(v) THEN FALSE
    ELSE CASE op = "between" -> v >= cond.lo /\ v <= cond.hi
           [] op = "gte" -> v >= cond.value
           [] op = "lte" -> v <= cond.value
           [] op = "gt" -> v > cond.value
           [] op = "lt" -> v < cond.value
           [] op = "eq" -> v = cond.value
           [] op = "in" -> v \in cond.values
           [] OTHER -> FALSE

_eval_condition(rec, cond) ==
    CondHolds(cond,
              IF cond.norm = "" THEN _to_float(_get_first(rec, cond.key))
              ELSE CallNorm(cond.norm, cond.kw, _get_first(rec, cond.key)),
              IF cond.op = "" THEN "between" ELSE cond.op)

_eval_guard(rec, rule) ==
    CASE rule.group = "all" -> \A i \in 1..Len(rule.conds) : _eval_condition(rec, rule.conds[i])
      [] rule.group = "any" -> \E i \in 1..Len(rule.conds) : _eval_condition(rec, rule.conds[i])
      [] OTHER -> _eval_condition(rec, rule.conds[1])

_conditions_met(rec, feat) ==
    /\ \A i \in 1..Len(feat.only_if) : _eval_condition(rec, feat.only_if[i])
    /\ \A i \in 1..Len(feat.only_if_all) : _eval_condition(rec, feat.only_if_all[i])
    /\ (Len(feat.only_if_any) > 0) =>
          \E i \in 1..Len(feat.only_if_any) : _eval_condition(rec, feat.only_if_any[i])

_shortcircuit_or_value(rec, feat) ==
    LET fire == IF feat.or_value # NoneV THEN feat.or_value ELSE feat.target IN
    IF Len(feat.or_if_any) > 0
         /\ \E i \in 1..Len(feat.or_if_any) : _eval_condition(rec, feat.or_if_any[i])
    THEN fire
    ELSE IF Len(feat.or_if_all) > 0
         /\ \A i \in 1..Len(feat.or_if_all) : _eval_condition(rec, feat.or_if_all[i])
    THEN fire
    ELSE NoneV

_feature_value_from_record_shortcircuit_first(rec, feat) ==
    IF feat.type # "var" THEN NaN
    ELSE IF _shortcircuit_or_value(rec, feat) # NoneV
    THEN np_clip(_shortcircuit_or_value(rec, feat), 0, Unit)
    ELSE IF ~_conditions_met(rec, feat) THEN NaN
    ELSE IF feat.norm = "" THEN np_clip(_to_float(_get_first(rec, feat.key)), 0, Unit)
    ELSE CallNorm(feat.norm, feat.kw, _get_first(rec, feat.key))

_feature_value_from_record(rec, feat) ==
    IF feat.type # "var" THEN NaN
    ELSE IF ~_conditions_met(rec, feat) THEN NaN
    ELSE LET sc == _shortcircuit_or_value(rec, feat) IN
         IF sc # NoneV THEN np_clip(sc, 0, Unit)
         ELSE LET raw == _get_first(rec, feat.key) IN
              IF feat.norm = "" THEN np_clip(_to_float(raw), 0, Unit)
              ELSE CallNorm(feat.norm, feat.kw, raw)

\* floor of the square root, by bisection on [lo, hi]
RECURSIVE ISqrt(_, _, _)
ISqrt(m, lo, hi) ==
    IF lo >= hi THEN lo
    ELSE LET mid == (lo + hi + 1) \div 2 IN
         IF mid * mid <= m THEN ISqrt(m, mid, hi) ELSE ISqrt(m, lo, mid - 1)

np_sqrt(m) == ISqrt(m, 0, 46340)

RECURSIVE SumSeq(_)
SumSeq(s) == IF s = <<>> THEN 0 ELSE Head(s) + SumSeq(Tail(s))

_weighted_nanaware_distance_all_weights(values, targets, weights) ==
    LET n == Len(values)
        mask == [i \in 1..n |-> ~(np_isnan(values[i]) \/ np_isnan(targets[i]))]
        W == IF SumSeq(weights) > 0 THEN SumSeq(weights) ELSE 1
        term(i) == IF mask[i] THEN weights[i] * (values[i] - targets[i]) * (values[i] - targets[i])
                   ELSE 0
        quo == SumSeq([i \in 1..n |-> term(i) \div W])
        rem == SumSeq([i \in 1..n |-> term(i) % W])
    IN  IF \A i \in 1..n : ~mask[i] THEN Inf
        ELSE np_sqrt(quo + rem \div W)

\* sqrt(sum(w*(a-b)^2) / sum(w)) over the positions where neither is NaN
_weighted_nanaware_distance(values, targets, weights) ==
    LET n == Len(values)
        mask == [i \in 1..n |-> ~(np_isnan(values[i]) \/ np_isnan(targets[i]))]
        W == SumSeq([i \in 1..n |-> IF mask[i] THEN weights[i] ELSE 0])
        term(i) == IF mask[i] THEN weights[i] * (values[i] - targets[i]) * (values[i] - targets[i])
                   ELSE 0
        \* sum(term) \div W without leaving 32 bits: quotients and remainders apart
        quo == SumSeq([i \in 1..n |-> IF mask[i] THEN term(i) \div W ELSE 0])
        rem == SumSeq([i \in 1..n |-> IF mask[i] THEN term(i) % W ELSE 0])
    IN  IF \A i \in 1..n : ~mask[i] THEN Inf
        ELSE np_sqrt(quo + rem \div W)

_eligible_for_hit(rec, feat) ==
    /\ \A i \in 1..Len(feat.only_if) : _eval_condition(rec, feat.only_if[i])
    /\ \A i \in 1..Len(feat.only_if_all) : _eval_condition(rec, feat.only_if_all[i])
    /\ (Len(feat.only_if_any) > 0) =>
          \E i \in 1..Len(feat.only_if_any) : _eval_condition(rec, feat.only_if_any[i])

_feature_hit_tol_swapped(rec, feat, value) ==
    IF ~_eligible_for_hit(rec, feat) THEN NoneV
    ELSE IF value = NoneV \/ np_isnan(value) THEN NoneV
    ELSE IF feat.hit_op = "lte"
         THEN (IF 20 * value <= 19 * feat.target THEN 1 ELSE 0)
         ELSE (IF 19 * value >= 20 * feat.target THEN 1 ELSE 0)

\* 1 = eligible hit, 0 = eligible miss, NoneV = ineligible; tol = 0.95
_feature_hit(rec, feat, value) ==
    IF ~_eligible_for_hit(rec, feat) THEN NoneV
    ELSE IF value = NoneV \/ np_isnan(value) THEN NoneV
    ELSE IF feat.hit_op = "lte"
         THEN (IF 19 * value <= 20 * feat.target THEN 1 ELSE 0)
         ELSE (IF 20 * value >= 19 * feat.target THEN 1 ELSE 0)

\* AND-ish knobs
\* K_RATIO = 0.20 = 1 / K_RATIO_INV; GAMMA = 0.8 = 4/5; CAP = 3.0 in thousandths
K_RATIO_INV == 5
CAP == 3000
PenUnit == 1000

\* x^5 and x^4 in thousandths, rounding down after every product; y = x ** 0.8
\* is the largest y with y^5 <= x^4
MulK(a, b) == (a * b) \div PenUnit
Pow5K(y) == MulK(MulK(MulK(MulK(y, y), y), y), y)
Pow4K(x) == MulK(MulK(MulK(x, x), x), x)

RECURSIVE RootSearch(_, _, _)
RootSearch(t, lo, hi) ==
    IF lo >= hi THEN lo
    ELSE LET mid == (lo + hi + 1) \div 2 IN
         IF Pow5K(mid) <= t THEN RootSearch(t, mid, hi) ELSE RootSearch(t, lo, mid - 1)

AndishPenalty_uncapped(hits, eligible) ==
    LET x == IF hits * 1000000 < eligible THEN 200000 * PenUnit
             ELSE (eligible * PenUnit) \div (K_RATIO_INV * hits)
    IN  IF x >= 4 * PenUnit THEN 4 * PenUnit
        ELSE RootSearch(Pow4K(x), PenUnit, 4 * PenUnit)

\* min((K_RATIO / max(r, 1e-6)) ** GAMMA, CAP) in thousandths, r = hits/eligible.
\* x ** 0.8 >= 3.0 for every x >= 4, so the power is only evaluated below 4.
AndishPenalty(hits, eligible) ==
    LET x == IF hits * 1000000 < eligible THEN 200000 * PenUnit
             ELSE (eligible * PenUnit) \div (K_RATIO_INV * hits)
    IN  IF x >= 4 * PenUnit THEN CAP
        ELSE RootSearch(Pow4K(x), PenUnit, CAP)

\* the multiplier applied to d: 1.0 unless eligible > 0 and r < K_RATIO
AndishMultiplier(hits, eligible) ==
    IF eligible > 0 /\ K_RATIO_INV * hits < eligible
    THEN AndishPenalty(hits, eligible)
    ELSE PenUnit

MulPenalty(d, mult) == IF d = Inf THEN Inf ELSE (d * mult) \div PenUnit

HitRatio(hits, eligible) == IF eligible > 0 THEN (hits * Unit) \div eligible ELSE 0

\* v = _feature_value_from_record(record, scores, f), for every f in feats
FeatureValues(rec, feats) ==
    [i \in 1..Len(feats) |-> _feature_value_from_record(rec, feats[i])]

\* h = _feature_hit(record, f, v), for every f in feats
FeatureHits(rec, feats, vals) ==
    [i \in 1..Len(feats) |-> _feature_hit(rec, feats[i], vals[i])]

\* hits, eligible, d, the penalty and r from the values and hits of a profile
ProfileScore(feats, vals, h) ==
    LET n == Len(feats)
        targs == [i \in 1..n |-> feats[i].target]
        wts == [i \in 1..n |-> feats[i].weight]
        eligible == Cardinality({i \in 1..n : h[i] # NoneV})
        hits == Cardinality({i \in 1..n : h[i] = 1})
        d0 == _weighted_nanaware_distance(vals, targs, wts)
        mult == AndishMultiplier(hits, eligible)
    IN  [vals |-> vals, h |-> h, hits |-> hits, eligible |-> eligible, d_raw |-> d0,
         mult |-> mult, d |-> MulPenalty(d0, mult), r |-> HitRatio(hits, eligible)]

\* the body of the profile loop of assign_profile_from_record
ProfileEval(rec, cfg) ==
    ProfileScore(cfg.features, FeatureValues(rec, cfg.features),
                 FeatureHits(rec, cfg.features, FeatureValues(rec, cfg.features)))

\* must / veto pre-filter
PassesGuards(rec, cfg) ==
    /\ \A i \in 1..Len(cfg.must) : _eval_guard(rec, cfg.must[i])
    /\ \A i \in 1..Len(cfg.veto) : ~_eval_guard(rec, cfg.veto[i])

\* EPS = 1e-6 in distance units, for distances counted in 1/scale
EpsUnits(scale) == scale \div 1000000

NoBest == [name |-> "None", dist |-> Inf, r |-> 0 - Unit]

KeepBest_ratio_first(best, name, d, r, eps) ==
    IF d # Inf /\ (best.dist = Inf \/ r > best.r)
    THEN [name |-> name, dist |-> d, r |-> r]
    ELSE best

\* if (d + EPS) < best_dist or (abs(d - best_dist) <= EPS and r > best_r)
KeepBest(best, name, d, r, eps) ==
    LET closer == d # Inf /\ (best.dist = Inf \/ d + eps < best.dist)
        absdiff == IF d >= best.dist THEN d - best.dist ELSE best.dist - d
        neartie == d # Inf /\ best.dist # Inf /\ absdiff <= eps
    IN  IF closer \/ (neartie /\ r > best.r)
        THEN [name |-> name, dist |-> d, r |-> r]
        ELSE best

\* one iteration of the profile loop: skip the profile, or evaluate it and
\* keep the best
AssignStep(rec, cfg, best) ==
    IF Len(cfg.features) = 0 \/ ~PassesGuards(rec, cfg) THEN best
    ELSE KeepBest(best, cfg.name, ProfileEval(rec, cfg).d, ProfileEval(rec, cfg).r,
                  EpsUnits(Unit))

RECURSIVE AssignLoop(_, _, _, _)
AssignLoop(rec, profiles, i, best) ==
    IF i > Len(profiles) THEN best
    ELSE AssignLoop(rec, profiles, i + 1, AssignStep(rec, profiles[i], best))

assign_profile_from_record(rec) == AssignLoop(rec, PROFILES, 1, NoBest).name

DistanceScore_unpenalized(feats, vals, h) ==
    _weighted_nanaware_distance(vals, [i \in 1..Len(feats) |-> feats[i].target],
                                [i \in 1..Len(feats) |-> feats[i].weight])

\* d from the values and hits of a profile, penalized when r < K_RATIO
DistanceScore(feats, vals, h) ==
    LET n == Len(feats)
        targs == [i \in 1..n |-> feats[i].target]
        wts == [i \in 1..n |-> feats[i].weight]
        eligible == Cardinality({i \in 1..n : h[i] # NoneV})
        hits == Cardinality({i \in 1..n : h[i] = 1})
        d0 == _weighted_nanaware_distance(vals, targs, wts)
    IN  IF eligible > 0 /\ K_RATIO_INV * hits < eligible
        THEN MulPenalty(d0, AndishPenalty(hits, eligible))
        ELSE d0

\* the body of the profile loop of compute_profile_distances
DistanceEval(rec, cfg) ==
    DistanceScore(cfg.features, FeatureValues(rec, cfg.features),
                  FeatureHits(rec, cfg.features, FeatureValues(rec, cfg.features)))

\* dists: profile name -> distance, for the profiles that pass must / veto;
\* modelled as the set of indices kept and the distance per index
compute_profile_distances(rec) ==
    LET kept == {i \in 1..Len(PROFILES) :
                    Len(PROFILES[i].features) > 0 /\ PassesGuards(rec, PROFILES[i])}
    IN  [i \in kept |-> DistanceEval(rec, PROFILES[i])]

\* 1/(1+d) in units of 1/SimUnit
SimUnit == 16 * Unit
Similarity(d) == (SimUnit * Unit) \div (Unit + d)

ProfileLikelihoods_unnormalized(dists) ==
    LET n == Len(PROFILES)
        d_arr == [i \in 1..n |-> IF i \in DOMAIN dists THEN dists[i] ELSE Inf]
        finite == {i \in 1..n : d_arr[i] # Inf}
        sims == [i \in 1..n |-> IF i \in finite THEN Similarity(d_arr[i]) ELSE 0]
    IN  IF finite = {}
        THEN [d |-> d_arr, sims |-> [i \in 1..n |-> 1], total |-> n]
        ELSE [d |-> d_arr, sims |-> sims, total |-> SimUnit]

\* Profile likelihoods panel: sims per profile (registry order) and their total;
\* the percentage of profile i is 100 * sims[i] / total.
ProfileLikelihoods(dists) ==
    LET n == Len(PROFILES)
        d_arr == [i \in 1..n |-> IF i \in DOMAIN dists THEN dists[i] ELSE Inf]
        finite == {i \in 1..n : d_arr[i] # Inf}
        sims == [i \in 1..n |-> IF i \in finite THEN Similarity(d_arr[i]) ELSE 0]
        total == SumSeq(sims)
    IN  IF finite = {} \/ total <= 0
        THEN [d |-> d_arr, sims |-> [i \in 1..n |-> 1], total |-> n]
        ELSE [d |-> d_arr, sims |-> sims, total |-> total]

-----------------------------------------------------------------------------
(* Five-dimension composite scores.  Scores are in units of 1/DimUnit.     *)

DimUnit == 25 * Unit

_get(rec, key) == IF rec[key].k = "missing" THEN RNaN ELSE rec[key]

_norm16(x) ==
    IF FloatRaises(x) THEN NaN
    ELSE IF np_isnan(FloatOf(x)) THEN NaN
    ELSE np_clip((FloatOf(x) - Unit) \div 5, 0, Unit)

\* mean of the non-NaN entries (NaN when there is none), in units of 1/Unit
_mean_ignore_nan(arr) ==
    LET keep == {i \in 1..Len(arr) : ~np_isnan(arr[i])}
        kept == [i \in 1..Len(arr) |-> IF i \in keep THEN arr[i] ELSE 0]
    IN  IF keep = {} THEN NaN ELSE SumSeq(kept) \div Cardinality(keep)

Abs(x) == IF x < 0 THEN 0 - x ELSE x
Max(a, b) == IF a >= b THEN a ELSE b

_weight_boost(wvals, mode) ==
    LET w0 == _mean_ignore_nan([i \in 1..Len(wvals) |-> _norm16(wvals[i])])
        w == IF np_isnan(w0) THEN Unit \div 2 ELSE w0
        boost == IF mode = "emotion_bipolar"
                 THEN Max(0, 2 * Abs(w - Unit \div 2) - Unit \div 2)
                 ELSE Max(0, w - Unit \div 2)
    IN  np_clip(boost, 0, Unit \div 2)

Bump_subtracted(boost, base) ==
    0 - (20 * boost * ((base * (Unit - base)) \div Unit)) \div Unit

\* k_bump * boost * base * (1 - base), k_bump = 0.8, in units of 1/DimUnit
Bump(boost, base) == (20 * boost * ((base * (Unit - base)) \div Unit)) \div Unit

\* base = mean of the (possibly inverted) frequency items
DimBase(rec, cfg) ==
    LET n == Len(cfg.freq_keys)
        vals == [i \in 1..n |->
                    LET v == _norm16(_get(rec, cfg.freq_keys[i])) IN
                    IF cfg.freq_keys[i] \in cfg.invert_keys /\ ~np_isnan(v) THEN Unit - v ELSE v]
    IN  _mean_ignore_nan(vals)

DimBoost(rec, cfg) ==
    _weight_boost([i \in 1..Len(cfg.weight_keys) |-> _get(rec, cfg.weight_keys[i])],
                  cfg.weight_mode)

compute_dimension_score(rec, cfg) ==
    LET base == DimBase(rec, cfg)
        boost == DimBoost(rec, cfg)
    IN  IF np_isnan(base) THEN NaN
        ELSE np_clip(25 * base + Bump(boost, base), 0, DimUnit)

-----------------------------------------------------------------------------
(* The five dimension bars: the live rows and the rows of the export       *)
(* mirror.  Positions are in tenths of a percent.                          *)

PctUnit == 10

Min(a, b) == IF a <= b THEN a ELSE b

\* max(lo, min(hi, float(p))), lo when float(p) raises; lo = 2.0, hi = 98.0
_clamp_pct(p) ==
    IF p = NoneV THEN 2 * PctUnit
    ELSE IF np_isnan(p) THEN 98 * PctUnit
    ELSE Max(2 * PctUnit, Min(98 * PctUnit, p))

\* bars[k].score: None for a NaN score, else s01 * 100 (kept in 1/DimUnit)
BarScore(rec, cfg) ==
    IF np_isnan(compute_dimension_score(rec, cfg)) THEN NoneV
    ELSE compute_dimension_score(rec, cfg)

\* int(round(np.clip(score, 0, 100))): whole percent, half to even; a score
\* in 1/DimUnit is never half-way between two whole percents
RoundPct(score) ==
    IF 2 * (np_clip(score, 0, DimUnit) % (DimUnit \div 100)) > DimUnit \div 100
    THEN np_clip(score, 0, DimUnit) \div (DimUnit \div 100) + 1
    ELSE np_clip(score, 0, DimUnit) \div (DimUnit \div 100)

MedianAbsent(median) == median = NoneV \/ np_isnan(median)

\* int(round(score)) of score_txt: whole percent, half to even
RoundScore(score) ==
    IF 2 * (score % (DimUnit \div 100)) > DimUnit \div 100
    THEN score \div (DimUnit \div 100) + 1
    ELSE score \div (DimUnit \div 100)

\* overlap = (score_txt != "NA" and abs(width_clamped - med_left_clamped) <= within)
Overlap(scoretag, mediantag, within) ==
    scoretag # NoneV /\ mediantag # NoneV /\ Abs(scoretag - mediantag) <= within * PctUnit

\* one row of the live page: fill width (whole percent), the score text, the
\* left positions of the median marker, the median tag and the score tag,
\* and whether the median tag is put below the track
LiveRow(name, score, median) ==
    [fill |-> IF score = NoneV THEN 2 ELSE Max(RoundPct(score), 2),
     score_txt |-> IF score = NoneV THEN NoneV ELSE RoundScore(score),
     marker |-> IF MedianAbsent(median) THEN NoneV ELSE np_clip(median, 0, 100 * PctUnit),
     mediantag |-> IF name = "Vivid" /\ ~MedianAbsent(median)
                   THEN _clamp_pct(np_clip(median, 0, 100 * PctUnit)) ELSE NoneV,
     scoretag |-> IF score = NoneV THEN NoneV
                  ELSE _clamp_pct(Max(RoundPct(score), 2) * PctUnit),
     below |-> /\ name = "Vivid" /\ ~MedianAbsent(median)
               /\ Overlap(IF score = NoneV THEN NoneV
                          ELSE _clamp_pct(Max(RoundPct(score), 2) * PctUnit),
                          _clamp_pct(np_clip(median, 0, 100 * PctUnit)), 9)]

\* one row of the export mirror
MirrorRow(name, score, median) ==
    [fill |-> IF score = NoneV THEN 2 ELSE Max(RoundPct(score), 2),
     score_txt |-> IF score = NoneV THEN NoneV ELSE RoundScore(score),
     marker |-> IF MedianAbsent(median) THEN NoneV
                ELSE Max(2 * PctUnit, Min(98 * PctUnit, np_clip(median, 0, 100 * PctUnit))),
     mediantag |-> IF name = "Vivid" /\ ~MedianAbsent(median)
                   THEN Max(2 * PctUnit, Min(98 * PctUnit, np_clip(median, 0, 100 * PctUnit)))
                   ELSE NoneV,
     scoretag |-> IF score = NoneV THEN NoneV
                  ELSE Max(2 * PctUnit, Min(98 * PctUnit, Max(RoundPct(score), 2) * PctUnit)),
     below |-> /\ name = "Vivid" /\ ~MedianAbsent(median)
               /\ Overlap(IF score = NoneV THEN NoneV
                          ELSE Max(2 * PctUnit,
                                   Min(98 * PctUnit, Max(RoundPct(score), 2) * PctUnit)),
                          Max(2 * PctUnit,
                              Min(98 * PctUnit, np_clip(median, 0, 100 * PctUnit))), 6)]

\* The live loop: left_anchor / right_anchor are assigned only in a row whose
\* median exists, and read in every row; a row reached before any assignment
\* raises NameError and ends the run.  rows = the rows written so far.
RECURSIVE LiveBars(_, _, _, _, _)
LiveBars(rec, medians, k, anchors, rows) ==
    IF k > Len(DIM_BAR_CONFIG) THEN [raised |-> FALSE, rows |-> rows]
    ELSE IF MedianAbsent(medians[k]) /\ ~anchors THEN [raised |-> TRUE, rows |-> rows]
    ELSE LiveBars(rec, medians, k + 1, TRUE,
                  Append(rows, LiveRow(DIM_BAR_CONFIG[k].name,
                                       BarScore(rec, DIM_BAR_CONFIG[k]), medians[k])))

\* the mirror loop, which assigns the anchors in every row
MirrorBars(rec, medians) ==
    [k \in 1..Len(DIM_BAR_CONFIG) |->
        MirrorRow(DIM_BAR_CONFIG[k].name, BarScore(rec, DIM_BAR_CONFIG[k]), medians[k])]

-----------------------------------------------------------------------------
(* The model has several parts, each with its own specification; a part    *)
(* that is not running keeps its variables at rest.                        *)

NoNorm == nraw = RNone /\ nfn = "none" /\ nres = NaN

NoPage ==
    /\ pc = "off" /\ idParam = "missing" /\ net = [kind |-> "none", body |-> <<>>]
    /\ posts = 0 /\ record = "None" /\ shown = {} /\ raised = FALSE
    /\ step = 0 /\ popOk = TRUE /\ LANG = "en"

NoRecord == arec = <<>> /\ aop = "off" /\ aout = <<>>

NoSelect == pairs = <<>> /\ si = 0 /\ sbest = NoBest

NoCall == cin = <<>> /\ cfn = "off" /\ cout = <<>>

NoCapture == cap = <<>>

NoDemo == demo = <<>>

FrameNorm == UNCHANGED <<nraw, pageVars, recVars, selVars, callVars, cap, demo>>
FramePage == UNCHANGED <<normVars, recVars, selVars, callVars, cap, demo>>
FrameRecord == UNCHANGED <<arec, normVars, pageVars, selVars, callVars, cap, demo>>
FrameSelect == UNCHANGED <<pairs, normVars, pageVars, recVars, callVars, cap, demo>>
FrameCall == UNCHANGED <<cin, normVars, pageVars, recVars, selVars, cap, demo>>
FrameCapture == UNCHANGED <<normVars, pageVars, recVars, selVars, callVars, demo>>
FrameDemo == UNCHANGED <<normVars, pageVars, recVars, selVars, callVars, cap>>

-----------------------------------------------------------------------------
(* Normalizer harness: a raw value is drawn, then normalizers are applied. *)

NumVals ==
    {n * Unit : n \in -1..MaxRawInt} \cup {Unit \div 4, Unit \div 2, (9 * Unit) \div 2}

RawShapes ==
    {RNone, RNaN, REmpty, RBlank, RNA, RText}
    \cup {Raw("bool", b, 0) : b \in {0, 1}}
    \cup {RNum(n) : n \in NumVals}
    \cup {RStr(n) : n \in NumVals}
    \cup {Raw("stextnum", n, 0) : n \in {0, 2, 20}}
    \cup {Raw("shhmm", hh, mm) : hh \in 0..MaxHH, mm \in {0, 5, 59}}
    \cup {Raw("sunit", n, m) : n \in {0, 1, 2, 15, 90}, m \in {1, 60}}

\* the value norm_eq is parameterised with in the registry ("value": 2)
EQ_VALUE == 2 * Unit

InitNorm ==
    /\ nraw \in RawShapes
    /\ nfn = "none"
    /\ nres = NaN
    /\ NoPage /\ NoRecord /\ NoSelect /\ NoCall /\ NoCapture /\ NoDemo

ApplyNormBool ==
    /\ nfn' = "norm_bool" /\ nres' = norm_bool(nraw)
    /\ FrameNorm

ApplyNormEq ==
    /\ nfn' = "norm_eq" /\ nres' = norm_eq(nraw, EQ_VALUE)
    /\ FrameNorm

ApplyNorm14 ==
    /\ nfn' = "norm_1_4" /\ nres' = norm_1_4(nraw)
    /\ FrameNorm

ApplyNorm16 ==
    /\ nfn' = "norm_1_6" /\ nres' = norm_1_6(nraw)
    /\ FrameNorm

ApplyNorm0100 ==
    /\ nfn' = "norm_0_100" /\ nres' = norm_0_100(nraw)
    /\ FrameNorm

ApplyNorm1100 ==
    /\ nfn' = "norm_1_100" /\ nres' = norm_1_100(nraw)
    /\ FrameNorm

ApplyNormLatency ==
    /\ nfn' = "norm_latency_auto" /\ nres' = norm_latency_auto(nraw, CAP_MIN)
    /\ FrameNorm

NextNorm ==
    \/ ApplyNormBool
    \/ ApplyNormEq
    \/ ApplyNorm14
    \/ ApplyNorm16
    \/ ApplyNorm0100
    \/ ApplyNorm1100
    \/ ApplyNormLatency

SpecNorm == InitNorm /\ [][NextNorm]_vars

-----------------------------------------------------------------------------
(* Page render: query param -> record routing, then the panels in order.   *)

\* what the POST to the survey platform can do
\* records the platform can return: one per questionnaire edition completed
\* (questionnaire_complete / _fr_complete / _en_complete = 2), and the empty object
Recs == {"rec_en", "rec_fr", "rec_es", "{}"}

MaxBody == 2

Bodies == UNION {[1..n -> Recs] : n \in 0..MaxBody}

NetOutcomes ==
    {[kind |-> "ok", body |-> b] : b \in Bodies}
    \cup {[kind |-> k, body |-> <<>>] :
            k \in {"timeout", "conn_error", "http_error", "bad_json", "json_object"}}

\* Python truthiness of the record / of the id query parameter
Truthy(rec) == rec \notin {"None", "{}"}
IdTruthy(p) == p = "id"

\* the panels of the report, in page order
Panels ==
    <<"title", "profile_header", "dimension_bars", "export_buttons", "you_panel",
      "sleep_panel", "experience_panel", "ranking", "all_dms", "disclaimer">>

ReportPanels == {Panels[i] : i \in 1..Len(Panels)}

InitPage ==
    /\ pc = "start"
    /\ idParam \in {"missing", "empty", "id"}
    /\ net = [kind |-> "none", body |-> <<>>]
    /\ posts = 0
    /\ record = "None"
    /\ shown = {}
    /\ raised = FALSE
    /\ step = 0
    /\ popOk = TRUE
    /\ LANG = "en"
    /\ NoNorm /\ NoRecord /\ NoSelect /\ NoCall /\ NoCapture /\ NoDemo

\* record = None; record_id = st.query_params.get("id"); if record_id: ...
ReadQuery ==
    /\ pc = "start"
    /\ pc' = IF IdTruthy(idParam) THEN "fetch" ELSE "route"
    /\ UNCHANGED <<idParam, net, posts, record, shown, raised, step, popOk, LANG>>
    /\ FramePage

FetchResult_propagate(o) ==
    IF o.kind = "ok" THEN
        [ret |-> IF Len(o.body) > 0 THEN o.body[1] ELSE "None", msg |-> {}, exc |-> FALSE]
    ELSE IF o.kind = "timeout" THEN
        [ret |-> "None", msg |-> {"err_timeout"}, exc |-> FALSE]
    ELSE
        [ret |-> "None", msg |-> {}, exc |-> TRUE]

\* result of fetch_by_record_id for a given network outcome:
\* [ret: the value returned, msg: messages shown, exc: exception propagated]
FetchResult(o) ==
    IF o.kind = "ok" THEN
        [ret |-> IF Len(o.body) > 0 THEN o.body[1] ELSE "None", msg |-> {}, exc |-> FALSE]
    ELSE IF o.kind = "timeout" THEN
        [ret |-> "None", msg |-> {"err_timeout"}, exc |-> FALSE]
    ELSE
        [ret |-> "None", msg |-> {"exception_box"}, exc |-> FALSE]

fetch_by_record_id ==
    /\ pc = "fetch"
    /\ \E o \in NetOutcomes :
          /\ net' = o
          /\ posts' = posts + 1
          /\ record' = FetchResult(o).ret
          /\ shown' = shown \cup FetchResult(o).msg
          /\ raised' = FetchResult(o).exc
          /\ pc' = IF FetchResult(o).exc THEN "crashed" ELSE "route"
    /\ UNCHANGED <<idParam, step, popOk, LANG>>
    /\ FramePage

\* q_fr in ("2", 2) -> "fr"; q_sp in ("2", 2) -> "es"; else "en"
DetectLanguage(rec) ==
    IF rec = "rec_fr" THEN "fr" ELSE IF rec = "rec_es" THEN "es" ELSE "en"

RouteRecord_nostop ==
    /\ pc = "route"
    /\ shown' = IF ~Truthy(record) THEN shown \cup {"not_found"} ELSE shown
    /\ pc' = "render"
    /\ LANG' = DetectLanguage(record)
    /\ UNCHANGED <<idParam, net, posts, record, raised, step, popOk>>
    /\ FramePage

\* if not record: st.error(...); st.stop()   -- then the language of the record
RouteRecord ==
    /\ pc = "route"
    /\ IF ~Truthy(record)
       THEN /\ shown' = shown \cup {"not_found"}
            /\ pc' = "halted"
            /\ LANG' = LANG
       ELSE /\ shown' = shown
            /\ pc' = "render"
            /\ LANG' = DetectLanguage(record)
    /\ UNCHANGED <<idParam, net, posts, record, raised, step, popOk>>
    /\ FramePage

\* pop_data = pd.read_csv(ASSETS_CSV), between the header and the bars
LoadPopulation ==
    /\ pc = "render" /\ step = 2
    /\ \E ok \in BOOLEAN :
          /\ popOk' = ok
          /\ shown' = IF ok THEN shown ELSE shown \cup {"err_population"}
    /\ step' = step
    /\ pc' = "render_bars"
    /\ UNCHANGED <<idParam, net, posts, record, raised, LANG>>
    /\ FramePage

\* The bar loop reads left_anchor / right_anchor, which are only assigned when
\* the population median exists: without population data the first row raises
\* NameError and the script run ends there.
BarsRaise == ~popOk

RenderPanel ==
    /\ \/ pc = "render" /\ step # 2
       \/ pc = "render_bars"
    /\ LET i == step + 1 IN
          IF Panels[i] = "dimension_bars" /\ BarsRaise
          THEN /\ shown' = shown \cup {"exception_trace"}
               /\ step' = step
               /\ raised' = TRUE
               /\ pc' = "crashed"
          ELSE /\ shown' = shown \cup {Panels[i]}
               /\ step' = i
               /\ raised' = raised
               /\ pc' = IF i = Len(Panels) THEN "done" ELSE "render"
    /\ UNCHANGED <<idParam, net, posts, record, popOk, LANG>>
    /\ FramePage

\* the page body is recomputed from scratch on every navigation
Rerun ==
    /\ pc \in {"done", "halted", "crashed"}
    /\ pc' = "start"
    /\ idParam' \in {"missing", "empty", "id"}
    /\ net' = [kind |-> "none", body |-> <<>>]
    /\ posts' = 0
    /\ record' = "None"
    /\ shown' = {}
    /\ raised' = FALSE
    /\ step' = 0
    /\ popOk' = TRUE
    /\ LANG' = "en"
    /\ FramePage

NextPage ==
    \/ ReadQuery
    \/ fetch_by_record_id
    \/ RouteRecord
    \/ LoadPopulation
    \/ RenderPanel
    \/ Rerun

SpecPage == InitPage /\ [][NextPage]_vars

-----------------------------------------------------------------------------
(* Translation: TEXT maps a display key to its variants per language.  An  *)
(* entry is modelled by the set of languages it has a variant for; a text  *)
(* is the pair <<key, language>>, or <<key, "raw">> for the key itself.    *)

Langs == {"en", "fr", "es"}

\* TEXT.get(key): None, or an entry
NoEntry == [present |-> FALSE, langs |-> {}]
Entry(langs) == [present |-> TRUE, langs |-> langs]

tr_nofallback(lang, key, entry, kwargs) ==
    IF ~entry.present THEN [text |-> <<key, "raw">>, formatted |-> kwargs # {}]
    ELSE [text |-> IF lang \in entry.langs THEN <<key, lang>> ELSE <<key, "raw">>,
          formatted |-> kwargs # {}]

\* entry.get(LANG, entry.get("en", key)), formatted when kwargs are given
tr(lang, key, entry, kwargs) ==
    IF ~entry.present THEN [text |-> <<key, "raw">>, formatted |-> kwargs # {}]
    ELSE [text |-> IF lang \in entry.langs THEN <<key, lang>>
                   ELSE IF "en" \in entry.langs THEN <<key, "en">>
                   ELSE <<key, "raw">>,
          formatted |-> kwargs # {}]

TrKeys == {"Vivid", "Your self-rated anxiety: {val}"}

InitTr ==
    /\ cin \in [LANG : Langs, key : TrKeys,
                entry : {NoEntry} \cup {Entry(l) : l \in SUBSET Langs},
                kwargs : {{}, {"val"}}]
    /\ cfn = "none"
    /\ cout = <<>>
    /\ NoNorm /\ NoPage /\ NoRecord /\ NoSelect /\ NoCapture /\ NoDemo

CallTr ==
    /\ cfn = "none"
    /\ cfn' = "tr"
    /\ cout' = tr(cin.LANG, cin.key, cin.entry, cin.kwargs)
    /\ FrameCall

NextTr == CallTr

SpecTr == InitTr /\ [][NextTr]_vars

-----------------------------------------------------------------------------
(* Language-based remap of the fetched record.  A record is a Python dict: *)
(* a sequence of (key, value) items in insertion order, keys unique.  A    *)
(* key is a stem and a language suffix ("", "_fr" or "_en").               *)

N_KEEP == 5

Key(stem, sfx) == [stem |-> stem, sfx |-> sfx]
Item(k, v) == [k |-> k, v |-> v]

PyNone == [t |-> "none", v |-> ""]
PyStr(s) == [t |-> "str", v |-> s]
PyInt(s) == [t |-> "int", v |-> s]

HasKey(d, k) == \E i \in 1..Len(d) : d[i].k = k

\* d.get(k)
DictGet(d, k) ==
    IF HasKey(d, k) THEN d[CHOOSE i \in 1..Len(d) : d[i].k = k].v ELSE PyNone

DictSet_keep_existing(d, k, v) ==
    IF HasKey(d, k) THEN d ELSE Append(d, Item(k, v))

\* d[k] = v: an existing key keeps its place, a new key is appended
DictSet(d, k, v) ==
    IF HasKey(d, k)
    THEN [i \in 1..Len(d) |-> IF d[i].k = k THEN Item(k, v) ELSE d[i]]
    ELSE Append(d, Item(k, v))

\* for k, v in rec.items(): if k.endswith(suffix): new_rec[k[:-len(suffix)]] = v
RECURSIVE StripSuffixed(_, _, _, _)
StripSuffixed(rec, suffix, i, new_rec) ==
    IF i > Len(rec) THEN new_rec
    ELSE StripSuffixed(rec, suffix, i + 1,
                       IF rec[i].k.sfx = suffix
                       THEN DictSet(new_rec, Key(rec[i].k.stem, ""), rec[i].v)
                       ELSE new_rec)

\* the first n_keep items as they are, then every suffixed item, un-suffixed
_strip_suffix_keep_first(rec, suffix) ==
    StripSuffixed(rec, suffix, 1, SubSeq(rec, 1, Min(N_KEEP, Len(rec))))

\* q == "2" or q == 2
IsTwo(q) == q = PyStr("2") \/ q = PyInt("2")

\* record = dict(record), then the remap by completion flag
RemapRecord(rec) ==
    IF IsTwo(DictGet(rec, Key("questionnaire_fr_complete", "")))
    THEN _strip_suffix_keep_first(rec, "_fr")
    ELSE IF IsTwo(DictGet(rec, Key("questionnaire_en_complete", "")))
    THEN _strip_suffix_keep_first(rec, "_en")
    ELSE rec

\* LANG from the flags read before the remap
RecordLanguage(rec) ==
    IF IsTwo(DictGet(rec, Key("questionnaire_fr_complete", ""))) THEN "fr"
    ELSE IF IsTwo(DictGet(rec, Key("questionnaire_en_complete", ""))) THEN "es"
    ELSE "en"

\* a fetched record: five leading columns, then questionnaire columns, each
\* of them present or not
Optional(stem, sfx, vals) == {<<>>} \cup {<<Item(Key(stem, sfx), v)>> : v \in vals}

FetchedRecords ==
    {<<Item(Key("record_id", ""), PyStr("17")), Item(Key("redcap_survey_identifier", ""), PyStr("")),
       Item(Key("consent_timestamp", ""), PyStr("t")), Item(Key("consent", ""), PyStr("1"))>>
     \o h \o a \o b \o c \o f \o g :
        h \in {<<Item(Key("consent_complete", ""), PyStr("2"))>>,
               <<Item(Key("freq_absorbed", ""), PyStr("3"))>>},
        a \in Optional("anxiety", "", {PyStr("50")}),
        b \in Optional("freq_absorbed", "_fr", {PyStr("4")}),
        c \in Optional("freq_absorbed", "_en", {PyStr("5")}),
        f \in Optional("questionnaire_fr_complete", "", {PyStr("0"), PyStr("2"), PyInt("2")}),
        g \in Optional("questionnaire_en_complete", "", {PyStr("0"), PyStr("2"), PyInt("2")})}

InitRemap ==
    /\ cin \in FetchedRecords
    /\ cfn = "none"
    /\ cout = <<>>
    /\ NoNorm /\ NoPage /\ NoRecord /\ NoSelect /\ NoCapture /\ NoDemo

CallRemap ==
    /\ cfn = "none"
    /\ cfn' = "remap"
    /\ cout' = [record |-> RemapRecord(cin), LANG |-> RecordLanguage(cin)]
    /\ FrameCall

NextRemap == CallRemap

SpecRemap == InitRemap /\ [][NextRemap]_vars

-----------------------------------------------------------------------------
(* "You and the world" histograms: the data prep, then the three columns   *)
(* in script order.  An exception that nothing catches ends the run.       *)

VVIQ_FIELDS ==
    <<"quest_a1", "quest_a2", "quest_a3", "quest_a4",
      "quest_b1", "quest_b2", "quest_b3", "quest_b4",
      "quest_c1", "quest_c2", "quest_c3", "quest_c4",
      "quest_d1", "quest_d2", "quest_d3", "quest_d4">>

HistFields ==
    {VVIQ_FIELDS[i] : i \in 1..Len(VVIQ_FIELDS)} \cup {"creativity_trait", "anxiety"}

\* record.get(key, np.nan)
RecordGet(rec, key) == IF rec[key].k = "missing" THEN RNaN ELSE rec[key]

pd_notna(x) == x.k \notin {"none", "nan"}

np_isfinite(v) == v # NaN /\ v # Inf /\ v # 0 - Inf

\* float(record.get(k, np.nan)) if pd.notna(record.get(k, np.nan)) else np.nan
VviqRaises(rec) ==
    \E i \in 1..Len(VVIQ_FIELDS) :
        pd_notna(RecordGet(rec, VVIQ_FIELDS[i])) /\ FloatRaises(RecordGet(rec, VVIQ_FIELDS[i]))

VviqVals(rec) ==
    [i \in 1..Len(VVIQ_FIELDS) |->
        IF pd_notna(RecordGet(rec, VVIQ_FIELDS[i]))
        THEN FloatOf(RecordGet(rec, VVIQ_FIELDS[i]))
        ELSE NaN]

\* sum(v for v in vviq_vals if np.isfinite(v))
VviqScore(vals) ==
    SumSeq([i \in 1..Len(vals) |-> IF np_isfinite(vals[i]) THEN vals[i] ELSE 0])

\* float(str(x).strip()) raises: str(None) is "None", str(True) is "True"
StrFloatRaises(x) ==
    x.k \in {"none", "bool", "sempty", "sblank", "sna", "stext", "stextnum", "shhmm", "sunit"}

_participant_value(rec, key) ==
    IF StrFloatRaises(RecordGet(rec, key)) THEN NaN ELSE FloatOf(RecordGet(rec, key))

\* _col_values(pop_data, col).size, for a population table with these columns
ColHasValues(columns, col) == col \in columns

\* int(round(v)) raises ValueError for NaN and OverflowError for infinities
IntRoundRaises(v) == ~np_isfinite(v)

\* int(round(v)): nearest whole number, half to even
IntRound(v) ==
    IF 2 * (v % Unit) > Unit THEN v \div Unit + 1
    ELSE IF 2 * (v % Unit) < Unit THEN v \div Unit
    ELSE IF (v \div Unit) % 2 = 0 THEN v \div Unit
    ELSE v \div Unit + 1

HistVals == {RMissing, RNone, RNaN, REmpty, RNA, RText, RStr(3 * Unit), RNum((9 * Unit) \div 2)}

\* the VVIQ items other than quest_a1 are all answered "3", or all left out
HistRecord(a1, rest, cre, anx) ==
    [f \in HistFields |->
        IF f = "quest_a1" THEN a1
        ELSE IF f = "creativity_trait" THEN cre
        ELSE IF f = "anxiety" THEN anx
        ELSE rest]

InitHist ==
    /\ cin \in {[record |-> HistRecord(a1, rest, cre, anx), columns |-> cols] :
                    a1 \in HistVals, rest \in {RStr(3 * Unit), RMissing},
                    cre \in HistVals, anx \in HistVals,
                    cols \in SUBSET {"creativity_trait", "anxiety"}}
    /\ cfn = "none"
    /\ cout = <<>>
    /\ NoNorm /\ NoPage /\ NoRecord /\ NoSelect /\ NoCapture /\ NoDemo

HistPrep ==
    /\ cfn = "none"
    /\ IF VviqRaises(cin.record)
       THEN /\ cfn' = "raised"
            /\ cout' = [at |-> "vviq_vals", titles |-> <<>>]
       ELSE /\ cfn' = "prep"
            /\ cout' = [at |-> "prep",
                        vviq_vals |-> VviqVals(cin.record),
                        vviq_score |-> VviqScore(VviqVals(cin.record)),
                        cre_part |-> _participant_value(cin.record, "creativity_trait"),
                        anx_part |-> _participant_value(cin.record, "anxiety"),
                        titles |-> <<>>]
    /\ FrameCall

ImageryColumn ==
    /\ cfn = "prep"
    /\ cfn' = "c1"
    /\ cout' = [cout EXCEPT !.at = "c1",
                    !.titles = Append(@, <<"imagery", IntRound(cout.vviq_score)>>)]
    /\ FrameCall

\* one population column: a notice without population counts, else the
\* histogram titled with int(round(part))
PartColumn(from, to, col, part) ==
    /\ cfn = from
    /\ IF ~ColHasValues(cin.columns, col)
       THEN /\ cfn' = to
            /\ cout' = [cout EXCEPT !.at = to, !.titles = Append(@, <<col, "unavailable">>)]
       ELSE IF IntRoundRaises(part)
       THEN /\ cfn' = "raised"
            /\ cout' = [cout EXCEPT !.at = col]
       ELSE /\ cfn' = to
            /\ cout' = [cout EXCEPT !.at = to, !.titles = Append(@, <<col, IntRound(part)>>)]
    /\ FrameCall

CreativityColumn == PartColumn("c1", "c2", "creativity_trait", cout.cre_part)

AnxietyColumn == PartColumn("c2", "c3", "anxiety", cout.anx_part)

NextHist ==
    \/ HistPrep
    \/ ImageryColumn
    \/ CreativityColumn
    \/ AnxietyColumn

SpecHist == InitHist /\ [][NextHist]_vars

-----------------------------------------------------------------------------
(* Export capture (the script of the export buttons): every click on the   *)
(* Download button starts one run of capture(); a run gives way to other   *)
(* runs at each await.  cap.vis is root.style.visibility ("" leaves the    *)
(* style sheet's visibility: hidden in force).                             *)

MaxClicks == 2

CapRun(p, prev) == [pc |-> p, prevVis |-> prev]

InitCapture ==
    /\ cap = [vis |-> "", runs |-> <<>>, alerts |-> 0, downloads |-> 0]
    /\ NoNorm /\ NoPage /\ NoRecord /\ NoSelect /\ NoCall /\ NoDemo

\* dlBtn click: capture() runs up to its first await
ClickDownload ==
    /\ Len(cap.runs) < MaxClicks
    /\ cap' = [cap EXCEPT !.runs = Append(@, CapRun("raf1", ""))]
    /\ FrameCapture

FirstFrame(i) ==
    /\ cap.runs[i].pc = "raf1"
    /\ cap' = [cap EXCEPT !.runs[i].pc = "raf2"]
    /\ FrameCapture

\* prevVis = root.style.visibility; root.style.visibility = 'visible'
MakeVisible(i) ==
    /\ cap.runs[i].pc = "raf2"
    /\ cap' = [cap EXCEPT !.runs[i] = CapRun("ensureImagesReady", cap.vis),
                          !.vis = "visible"]
    /\ FrameCapture

ImagesReady(i) ==
    /\ cap.runs[i].pc = "ensureImagesReady"
    /\ cap' = [cap EXCEPT !.runs[i].pc = "rasterizeImages"]
    /\ FrameCapture

Rasterized(i) ==
    /\ cap.runs[i].pc = "rasterizeImages"
    /\ cap' = [cap EXCEPT !.runs[i].pc = "toBlob"]
    /\ FrameCapture

\* toBlob resolves with a blob: visibility restored, then downloadBlob
BlobReady(i) ==
    /\ cap.runs[i].pc = "toBlob"
    /\ cap' = [cap EXCEPT !.runs[i].pc = "downloadBlob",
                          !.vis = cap.runs[i].prevVis]
    /\ FrameCapture

\* toBlob resolves with nothing or an empty blob: visibility restored,
\* then throw new Error('empty blob') -> catch -> alert
BlobEmpty(i) ==
    /\ cap.runs[i].pc = "toBlob"
    /\ cap' = [cap EXCEPT !.runs[i].pc = "done",
                          !.vis = cap.runs[i].prevVis,
                          !.alerts = @ + 1]
    /\ FrameCapture

\* toBlob rejects: catch -> alert
BlobRejected(i) ==
    /\ cap.runs[i].pc = "toBlob"
    /\ cap' = [cap EXCEPT !.runs[i].pc = "done", !.alerts = @ + 1]
    /\ FrameCapture

Downloaded(i) ==
    /\ cap.runs[i].pc = "downloadBlob"
    /\ cap' = [cap EXCEPT !.runs[i].pc = "done", !.downloads = @ + 1]
    /\ FrameCapture

NextCapture ==
    \/ ClickDownload
    \/ \E i \in 1..Len(cap.runs) : FirstFrame(i)
    \/ \E i \in 1..Len(cap.runs) : MakeVisible(i)
    \/ \E i \in 1..Len(cap.runs) : ImagesReady(i)
    \/ \E i \in 1..Len(cap.runs) : Rasterized(i)
    \/ \E i \in 1..Len(cap.runs) : BlobReady(i)
    \/ \E i \in 1..Len(cap.runs) : BlobEmpty(i)
    \/ \E i \in 1..Len(cap.runs) : BlobRejected(i)
    \/ \E i \in 1..Len(cap.runs) : Downloaded(i)

SpecCapture == InitCapture /\ [][NextCapture]_vars

-----------------------------------------------------------------------------
(* Demo page (DM_results_viz_demo.py): secrets and the `demo` query        *)
(* parameter decide between the fallback record, a warning with st.stop(), *)
(* and falling through to the charts.                                      *)

\* a secret: None (not set), "" or a value
SecretVals == {"None", "", "set"}

\* st.query_params.get("demo", ["0"]): the default list, or the string given
QueryVals == {"absent", "", "0", "1", "10", "true"}

\* not x
Falsy(x) == x \in {"None", ""}

\* (...)[0] raises IndexError on the empty string
FlagRaises(q) == q = ""

\* st.query_params.get("demo", ["0"])[0] == "1"
DemoFlag(q) == q \in {"1", "10"}

demo_record ==
    [freq_think_nocontrol |-> 4, freq_think_seq_bizarre |-> 3,
     freq_think_seq_ordinary |-> 2, freq_percept_precise |-> 5,
     freq_percept_real |-> 4, freq_percept_imposed |-> 1]

SCALES ==
    [Thoughts |-> <<"freq_think_nocontrol", "freq_think_seq_bizarre", "freq_think_seq_ordinary">>,
     Perception |-> <<"freq_percept_precise", "freq_percept_real", "freq_percept_imposed">>]

\* mean of the items of each scale, in 1/Unit
scale_means(rec) ==
    [s \in DOMAIN SCALES |->
        SumSeq([i \in 1..Len(SCALES[s]) |-> rec[SCALES[s][i]] * Unit]) \div Len(SCALES[s])]

\* a name that has not been assigned
Undefined == [defined |-> FALSE]

InitDemo ==
    /\ demo \in {[url |-> u, token |-> t, q |-> q, pc |-> "flag", DEMO |-> FALSE,
                  record |-> Undefined, means |-> Undefined, shown |-> <<>>,
                  raised |-> "none"] :
                    u \in SecretVals, t \in SecretVals, q \in QueryVals}
    /\ NoNorm /\ NoPage /\ NoRecord /\ NoSelect /\ NoCall /\ NoCapture

ReadDemoFlag ==
    /\ demo.pc = "flag"
    /\ demo' = IF FlagRaises(demo.q)
               THEN [demo EXCEPT !.pc = "raised", !.raised = "IndexError"]
               ELSE [demo EXCEPT !.pc = "route", !.DEMO = DemoFlag(demo.q)]
    /\ FrameDemo

RouteDemo ==
    /\ demo.pc = "route"
    /\ demo' = IF (Falsy(demo.url) \/ Falsy(demo.token)) /\ demo.DEMO
               THEN [demo EXCEPT !.pc = "caption", !.record = demo_record,
                                 !.shown = Append(@, "title")]
               ELSE IF Falsy(demo.url) \/ Falsy(demo.token)
               THEN [demo EXCEPT !.pc = "stopped", !.shown = Append(@, "warning")]
               ELSE [demo EXCEPT !.pc = "caption"]
    /\ FrameDemo

DemoCaption ==
    /\ demo.pc = "caption"
    /\ demo' = [demo EXCEPT !.pc = "means", !.shown = Append(@, "caption")]
    /\ FrameDemo

\* means = scale_means(record): NameError when record was never assigned
ComputeMeans ==
    /\ demo.pc = "means"
    /\ demo' = IF demo.record = Undefined
               THEN [demo EXCEPT !.pc = "raised", !.raised = "NameError"]
               ELSE [demo EXCEPT !.pc = "radar", !.means = scale_means(demo.record)]
    /\ FrameDemo

RadarChart ==
    /\ demo.pc = "radar"
    /\ demo' = [demo EXCEPT !.pc = "bars", !.shown = Append(@, "radar")]
    /\ FrameDemo

BarChart ==
    /\ demo.pc = "bars"
    /\ demo' = [demo EXCEPT !.pc = "done", !.shown = Append(@, "bar")]
    /\ FrameDemo

NextDemo ==
    \/ ReadDemoFlag
    \/ RouteDemo
    \/ DemoCaption
    \/ ComputeMeans
    \/ RadarChart
    \/ BarChart

SpecDemo == InitDemo /\ [][NextDemo]_vars

-----------------------------------------------------------------------------
(* Conditions and guards on one field: a condition is evaluated against a  *)
(* record holding (or lacking) the field "x"; a guard is a single          *)
(* condition or an all / any group of conditions.                          *)

CondOps == {"", "between", "gte", "lte", "gt", "lt", "eq", "in"}

CondNorms == {"", "norm_bool", "norm_eq", "norm_1_6", "norm_latency_auto"}

\* thresholds on the normalized scale
CondThresholds == {0, Unit \div 2, Unit}

Cond(norm, op, t) ==
    [key |-> <<"x">>, norm |-> norm,
     kw |-> [value |-> EQ_VALUE, cap_minutes |-> CAP_MIN],
     op |-> op, lo |-> 0, hi |-> t, value |-> t, values |-> {t}]

CondFamily == {Cond(norm, op, t) : norm \in CondNorms, op \in CondOps, t \in CondThresholds}

\* the conditions that all / any groups are built from
GroupConds ==
    {Cond("", "gte", Unit), Cond("norm_1_6", "lte", Unit \div 2), Cond("norm_bool", "eq", Unit)}

Rule(group, conds) == [group |-> group, conds |-> conds]

RuleFamily ==
    {Rule("single", <<c>>) : c \in CondFamily}
    \cup {Rule(g, <<c>>) : g \in {"all", "any"}, c \in GroupConds}
    \cup {Rule(g, <<c1, c2>>) : g \in {"all", "any"}, c1 \in GroupConds, c2 \in GroupConds}

CondVals ==
    {RMissing, RNone, RNaN, REmpty, RBlank, RNA, RText,
     RStr(0), RStr(Unit), RStr(2 * Unit), RNum(Unit), RNum(4 * Unit)}

InitCond ==
    /\ cin \in [rec : {[f \in {"x"} |-> v] : v \in CondVals}, rule : RuleFamily]
    /\ cfn = "none"
    /\ cout = <<>>
    /\ NoNorm /\ NoPage /\ NoRecord /\ NoSelect /\ NoCapture /\ NoDemo

\* _eval_condition(record, c) for one condition of the rule
EvalCondition ==
    /\ cfn = "none"
    /\ \E i \in 1..Len(cin.rule.conds) :
          /\ cfn' = "_eval_condition"
          /\ cout' = [i |-> i, result |-> _eval_condition(cin.rec, cin.rule.conds[i])]
    /\ FrameCall

\* _eval_guard(record, rule)
EvalGuard ==
    /\ cfn = "none"
    /\ cfn' = "_eval_guard"
    /\ cout' = [i |-> 0, result |-> _eval_guard(cin.rec, cin.rule)]
    /\ FrameCall

NextCond ==
    \/ EvalCondition
    \/ EvalGuard

SpecCond == InitCond /\ [][NextCond]_vars

-----------------------------------------------------------------------------
(* Feature values: one feature with aliases "x", "y", gated on field "g"   *)
(* and short-circuited on field "s", evaluated against a record of these   *)
(* four fields.                                                            *)

CondOn(key, op, t) == [Cond("", op, t) EXCEPT !.key = <<key>>]

\* the shapes of gate a feature can carry: none, only_if, only_if_all,
\* only_if_any
GateShapes ==
    {[only_if |-> <<>>, only_if_all |-> <<>>, only_if_any |-> <<>>],
     [only_if |-> <<CondOn("g", "gte", Unit)>>, only_if_all |-> <<>>, only_if_any |-> <<>>],
     [only_if |-> <<>>,
      only_if_all |-> <<CondOn("g", "gte", Unit), CondOn("g", "lte", 3 * Unit)>>,
      only_if_any |-> <<>>],
     [only_if |-> <<>>, only_if_all |-> <<>>,
      only_if_any |-> <<CondOn("g", "eq", Unit), CondOn("g", "gte", 4 * Unit)>>]}

\* the shapes of short-circuit: none, or_if_any, or_if_all
ShortcircuitShapes ==
    {[or_if_any |-> <<>>, or_if_all |-> <<>>],
     [or_if_any |-> <<CondOn("s", "eq", Unit), CondOn("s", "gte", 4 * Unit)>>,
      or_if_all |-> <<>>],
     [or_if_any |-> <<>>,
      or_if_all |-> <<CondOn("s", "gte", Unit), CondOn("s", "lte", 3 * Unit)>>]}

FeatureFamily ==
    {[type |-> "var", key |-> <<"x", "y">>, norm |-> norm,
      kw |-> [value |-> EQ_VALUE, cap_minutes |-> CAP_MIN],
      target |-> Unit \div 2, weight |-> Unit, hit_op |-> "gte",
      only_if |-> g.only_if, only_if_all |-> g.only_if_all, only_if_any |-> g.only_if_any,
      or_if_any |-> sc.or_if_any, or_if_all |-> sc.or_if_all, or_value |-> ov] :
        norm \in {"", "norm_1_6"}, g \in GateShapes, sc \in ShortcircuitShapes,
        ov \in {NoneV, Unit \div 4, 2 * Unit}}

FeatureRecs ==
    {[f \in {"x", "y", "g", "s"} |->
        CASE f = "x" -> x [] f = "y" -> y [] f = "g" -> g [] f = "s" -> sv] :
        x \in {RMissing, RText, RStr(Unit), RStr(4 * Unit), RNum(3 * Unit)},
        y \in {RMissing, RStr(2 * Unit)},
        g \in {RMissing, RStr(0), RStr(Unit), RStr(4 * Unit)},
        sv \in {RMissing, RStr(0), RStr(Unit), RStr(4 * Unit)}}

InitFeature ==
    /\ cin \in [rec : FeatureRecs, feat : FeatureFamily]
    /\ cfn = "none"
    /\ cout = <<>>
    /\ NoNorm /\ NoPage /\ NoRecord /\ NoSelect /\ NoCapture /\ NoDemo

\* v = _feature_value_from_record(record, scores, f)
FeatureValue ==
    /\ cfn = "none"
    /\ cfn' = "_feature_value_from_record"
    /\ cout' = [v |-> _feature_value_from_record(cin.rec, cin.feat)]
    /\ FrameCall

NextFeature == FeatureValue

SpecFeature == InitFeature /\ [][NextFeature]_vars

-----------------------------------------------------------------------------
(* Distance harness: the (value, target, weight) triples of a profile's    *)
(* features, and further features without a value put before or after.    *)

MaxBase == 2
MaxExtra == 2

Triple(v, t, w) == [v |-> v, t |-> t, w |-> w]

\* features with or without a value; targets as in the registry, weights in
\* tenths
BaseTriples ==
    {Triple(v, t, w) : v \in {0, Unit \div 2, Unit, NaN}, t \in {Unit \div 2, Pct(70)},
                       w \in {8, 10}}

\* features without a value, with any target and weight
ExtraTriples == {Triple(NaN, t, w) : t \in {0, NaN}, w \in {10, 30}}

SeqsUpTo(S, n) == UNION {[1..k -> S] : k \in 0..n}

TripleDistance(fs) ==
    _weighted_nanaware_distance([i \in 1..Len(fs) |-> fs[i].v],
                                [i \in 1..Len(fs) |-> fs[i].t],
                                [i \in 1..Len(fs) |-> fs[i].w])

InitDistance ==
    /\ cin \in [base : SeqsUpTo(BaseTriples, MaxBase),
                extra : SeqsUpTo(ExtraTriples, MaxExtra),
                front : BOOLEAN]
    /\ cfn = "none"
    /\ cout = <<>>
    /\ NoNorm /\ NoPage /\ NoRecord /\ NoSelect /\ NoCapture /\ NoDemo

\* d = _weighted_nanaware_distance(vals, targs, wts), without and with the
\* further features
Distance ==
    /\ cfn = "none"
    /\ cfn' = "_weighted_nanaware_distance"
    /\ cout' = [base |-> TripleDistance(cin.base),
                extended |-> TripleDistance(IF cin.front THEN cin.extra \o cin.base
                                            ELSE cin.base \o cin.extra)]
    /\ FrameCall

NextDistance == Distance

SpecDistance == InitDistance /\ [][NextDistance]_vars

-----------------------------------------------------------------------------
(* Intensity radar: the seven self-rated fields, missing axes filled, and   *)
(* the polygon closed.                                                     *)

FIELDS ==
    <<"degreequest_vividness", "degreequest_immersiveness", "degreequest_bizarreness",
      "degreequest_spontaneity", "degreequest_fleetingness", "degreequest_emotionality",
      "degreequest_sleepiness">>

\* float(x), NaN when it raises; record.get(k) is None for a missing key
_as_float_or_nan(x) == IF x.k = "missing" \/ FloatRaises(x) THEN NaN ELSE FloatOf(x)

\* float(np.nanmean(vals)), in 1/Unit
np_nanmean(vals) ==
    SumSeq([i \in 1..Len(vals) |-> IF np_isnan(vals[i]) THEN 0 ELSE vals[i]])
        \div Cardinality({i \in 1..Len(vals) : ~np_isnan(vals[i])})

RadarVals(rec) == [i \in 1..Len(FIELDS) |-> _as_float_or_nan(rec[FIELDS[i]])]

vals_filled(vals) ==
    IF \A i \in 1..Len(vals) : np_isnan(vals[i])
    THEN [i \in 1..Len(vals) |-> 0]
    ELSE [i \in 1..Len(vals) |-> IF np_isnan(vals[i]) THEN np_nanmean(vals) ELSE vals[i]]

RadarRecs ==
    [{FIELDS[i] : i \in 1..Len(FIELDS)} -> {RMissing, RText, RStr(2 * Unit), RNum(5 * Unit)}]

InitRadar ==
    /\ cin \in RadarRecs
    /\ cfn = "none"
    /\ cout = <<>>
    /\ NoNorm /\ NoPage /\ NoRecord /\ NoSelect /\ NoCapture /\ NoDemo

\* values = vals_filled + [vals_filled[0]]
RadarValues ==
    /\ cfn = "none"
    /\ cfn' = "radar"
    /\ cout' = [vals |-> RadarVals(cin),
                values |-> Append(vals_filled(RadarVals(cin)), vals_filled(RadarVals(cin))[1])]
    /\ FrameCall

NextRadar == RadarValues

SpecRadar == InitRadar /\ [][NextRadar]_vars

-----------------------------------------------------------------------------
(* Dynamics timeline: frequency and timing paired per concept, split into  *)
(* two halves, the three most frequent labels of each half displayed.  A   *)
(* variable is the pair <<prefix, core name>>; four of the thirty timed    *)
(* concepts are kept, and the one frequency item that has no timing.       *)

FREQ_VARS ==
    << <<"freq_", "think_ordinary">>, <<"freq_", "scenario">>, <<"freq_", "absorbed">>,
       <<"freq_", "replay">>, <<"freq_", "positive">> >>

TIME_VARS ==
    << <<"timequest_", "scenario">>, <<"timequest_", "positive">>,
       <<"timequest_", "absorbed">>, <<"timequest_", "replay">> >>

\* re.sub(r"^(freq_|timequest_)", "", v)
_core_name(v) == v[2]

\* float(x), NaN when it raises; record.get(v, np.nan) is NaN for a missing key
_as_float(x) == IF x.k = "missing" \/ FloatRaises(x) THEN NaN ELSE FloatOf(x)

\* {key: tr(f"LBL_{key}")}, by core name
CUSTOM_LABELS(lang) ==
    [c \in {_core_name(FREQ_VARS[i]) : i \in 1..Len(FREQ_VARS)} |->
        tr(lang, <<"LBL_", "freq_", c>>, Entry(Langs), {}).text]

\* The core names in the order of their label texts (Python compares str by
\* code point): en "feeling absorbed" < "feeling positive" <
\* "imagining scenarios" < "replaying the day" < "thinking logical
\* thoughts"; fr "imaginer des scenarios" < "penser de facon logique" <
\* "rejouer sa journee" < "se sentir absorbe" < "se sentir positif".
TextOrder(lang) ==
    IF lang = "fr" THEN <<"scenario", "think_ordinary", "replay", "absorbed", "positive">>
    ELSE <<"absorbed", "positive", "scenario", "replay", "think_ordinary">>

\* a < b on two label texts of one language
TextLess(a, b) ==
    LET pos(x) == CHOOSE i \in 1..Len(TextOrder(x[2])) : TextOrder(x[2])[i] = x[1][3]
    IN  pos(a) < pos(b)

freq_scores(rec) ==
    [c \in {_core_name(FREQ_VARS[i]) : i \in 1..Len(FREQ_VARS)} |-> _as_float(rec[<<"freq_", c>>])]

time_scores(rec) ==
    [c \in {_core_name(TIME_VARS[i]) : i \in 1..Len(TIME_VARS)} |->
        _as_float(rec[<<"timequest_", c>>])]

\* the concepts with both scores, in the order of time_scores
common(rec) ==
    LET both(v) == /\ _core_name(v) \in DOMAIN freq_scores(rec)
                   /\ ~np_isnan(time_scores(rec)[_core_name(v)])
                   /\ ~np_isnan(freq_scores(rec)[_core_name(v)])
        kept == SelectSeq(TIME_VARS, both)
    IN  [i \in 1..Len(kept) |-> _core_name(kept[i])]

cores(lang, rec) ==
    [i \in 1..Len(common(rec)) |->
        [c |-> common(rec)[i], t |-> time_scores(rec)[common(rec)[i]],
         f |-> freq_scores(rec)[common(rec)[i]], lab |-> CUSTOM_LABELS(lang)[common(rec)[i]]]]

bins == << <<1 * Unit, 50 * Unit>>, <<51 * Unit, 100 * Unit>> >>

\* each item goes to the first bin with lo <= t <= hi
bin_items(cs) ==
    [i \in 1..Len(bins) |->
        LET here(x) == /\ bins[i][1] <= x.t /\ x.t <= bins[i][2]
                       /\ \A j \in 1..(i - 1) : ~(bins[j][1] <= x.t /\ x.t <= bins[j][2])
        IN  SelectSeq(cs, here)]

RemoveAt(s, i) == [j \in 1..(Len(s) - 1) |-> IF j < i THEN s[j] ELSE s[j + 1]]

\* the key (-x[2], x[3]) of a is at most that of b
KeyLE(a, b) == a.f > b.f \/ (a.f = b.f /\ ~TextLess(b.lab, a.lab))

RECURSIVE items_sorted_by_freq_only(_)
items_sorted_by_freq_only(items) ==
    IF items = <<>> THEN <<>>
    ELSE LET i == CHOOSE i \in 1..Len(items) :
                      /\ \A j \in 1..Len(items) : items[i].f >= items[j].f
                      /\ \A j \in 1..(i - 1) : items[j].f < items[i].f
         IN  <<items[i]>> \o items_sorted_by_freq_only(RemoveAt(items, i))

\* sorted(items, key=lambda x: (-x[2], x[3])): stable
RECURSIVE items_sorted(_)
items_sorted(items) ==
    IF items = <<>> THEN <<>>
    ELSE LET i == CHOOSE i \in 1..Len(items) :
                      /\ \A j \in 1..Len(items) : KeyLE(items[i], items[j])
                      /\ \A j \in 1..(i - 1) : ~KeyLE(items[j], items[i])
         IN  <<items[i]>> \o items_sorted(RemoveAt(items, i))

winners(lang, bi) ==
    [i \in 1..Len(bi) |->
        IF bi[i] = <<>> THEN <<tr(lang, "no content", Entry(Langs), {}).text>>
        ELSE [k \in 1..Min(3, Len(bi[i])) |-> items_sorted(bi[i])[k].lab]]

TimelineRecs ==
    {[v \in {<<"freq_", _core_name(FREQ_VARS[i])>> : i \in 1..Len(FREQ_VARS)}
            \cup {TIME_VARS[i] : i \in 1..Len(TIME_VARS)} |->
        IF v = <<"freq_", "think_ordinary">> THEN RNum(6 * Unit)
        ELSE IF v[1] = "freq_" THEN f[v[2]] ELSE t[v[2]]] :
      f \in [{_core_name(TIME_VARS[i]) : i \in 1..Len(TIME_VARS)} ->
                {RMissing, RStr(2 * Unit), RNum(5 * Unit)}],
      t \in [{_core_name(TIME_VARS[i]) : i \in 1..Len(TIME_VARS)} ->
                {RMissing, RNum(0), RStr(50 * Unit), RNum(51 * Unit), RStr(100 * Unit)}]}

InitTimeline ==
    /\ cin \in [LANG : {"en", "fr"}, rec : TimelineRecs]
    /\ cfn = "none"
    /\ cout = <<>>
    /\ NoNorm /\ NoPage /\ NoRecord /\ NoSelect /\ NoCapture /\ NoDemo

Timeline ==
    /\ cfn = "none"
    /\ cfn' = "timeline"
    /\ cout' = [bin_items |-> bin_items(cores(cin.LANG, cin.rec)),
                winners |-> winners(cin.LANG, bin_items(cores(cin.LANG, cin.rec)))]
    /\ FrameCall

NextTimeline == Timeline

SpecTimeline == InitTimeline /\ [][NextTimeline]_vars

-----------------------------------------------------------------------------
(* Sleep latency of two participants, each a whole number of minutes given *)
(* as a number or as a digit string, normalized for the latency panel and  *)
(* the profile features.                                                   *)

Minutes ==
    {RNum(m * Unit) : m \in 0..(2 * CAP_MIN)} \cup {RStr(m * Unit) : m \in 0..(2 * CAP_MIN)}

InitLatency ==
    /\ cin \in {p \in [m1 : Minutes, m2 : Minutes] : p.m1.n <= p.m2.n}
    /\ cfn = "none"
    /\ cout = <<>>
    /\ NoNorm /\ NoPage /\ NoRecord /\ NoSelect /\ NoCapture /\ NoDemo

\* sl_norm = norm_latency_auto(raw_sl, cap_minutes=CAP_MIN)
NormLatency ==
    /\ cfn = "none"
    /\ cfn' = "norm_latency_auto"
    /\ cout' = [m1 |-> norm_latency_auto(cin.m1, CAP_MIN),
                m2 |-> norm_latency_auto(cin.m2, CAP_MIN)]
    /\ FrameCall

NextLatency == NormLatency

SpecLatency == InitLatency /\ [][NextLatency]_vars

-----------------------------------------------------------------------------
(* The timing gates of the Radio Tuner features, evaluated on one whole    *)
(* timing value of the 1..100 scale given as a number or a digit string.   *)

TimingGates == {RadioTuner_features[i].only_if[1] : i \in 1..Len(RadioTuner_features)}
EarlyGates == {g \in TimingGates : g.lo = Pct(0)}
LateGates == {g \in TimingGates : g.lo = Pct(51)}

Timings == {RNum(t * Unit) : t \in 1..100} \cup {RStr(t * Unit) : t \in 1..100}

\* a record with the timing under the key of the gate
TimingRec(g, t) == [k \in {g.key[1]} |-> t]

InitGate ==
    /\ cin \in [t : Timings, early : EarlyGates, late : LateGates]
    /\ cfn = "none"
    /\ cout = <<>>
    /\ NoNorm /\ NoPage /\ NoRecord /\ NoSelect /\ NoCapture /\ NoDemo

EvalGates ==
    /\ cfn = "none"
    /\ cfn' = "gates"
    /\ cout' = [early |-> _eval_condition(TimingRec(cin.early, cin.t), cin.early),
                late |-> _eval_condition(TimingRec(cin.late, cin.t), cin.late)]
    /\ FrameCall

NextGate == EvalGates

SpecGate == InitGate /\ [][NextGate]_vars

-----------------------------------------------------------------------------
(* Computations on one participant record: profile assignment, the profile *)
(* loop body, the ranking panel and the five dimension scores.             *)

MaxScale == 6

BaseVals ==
    {RMissing, RNaN, RBlank, RNA, RText} \cup {RStr(k * Unit) : k \in 1..MaxScale}

OverrideVals ==
    {RMissing, RStr(1 * Unit), RStr(4 * Unit), RStr(6 * Unit), RStr(80 * Unit)}

\* the raw value a feature's normalizer maps onto the feature's target
TargetRaw(feat) ==
    CASE feat.norm = "norm_1_6" -> RStr(Unit + 5 * feat.target)
      [] feat.norm = "norm_1_4" -> RStr(Unit + 3 * feat.target)
      [] feat.norm = "norm_1_100" -> RStr(Unit + 99 * feat.target)
      [] feat.norm = "norm_0_100" -> RStr(100 * feat.target)
      [] feat.norm = "norm_latency_auto" -> RStr(feat.kw.cap_minutes * feat.target)
      [] feat.norm = "norm_bool" -> RStr(feat.target)
      [] feat.norm = "norm_eq" -> RStr(feat.kw.value)

\* every feature of profile p at its target, every gate of p open
TargetRec(p) ==
    LET feats == PROFILES[p].features
        own(f) == {i \in 1..Len(feats) : feats[i].key[1] = f}
        gate(f) == {i \in 1..Len(feats) :
                        Len(feats[i].only_if) > 0 /\ feats[i].only_if[1].key[1] = f}
    IN  [f \in Fields |->
            IF own(f) # {} THEN TargetRaw(feats[CHOOSE i \in own(f) : TRUE])
            ELSE IF gate(f) # {}
                 THEN RStr(Unit + 99 * feats[CHOOSE i \in gate(f) : TRUE].only_if[1].lo)
                 ELSE RMissing]

RecordFamily ==
    {[[f \in Fields |-> b] EXCEPT ![g] = v] : b \in BaseVals, g \in Fields, v \in OverrideVals}
    \cup {[TargetRec(p) EXCEPT ![g] = v] : p \in 1..Len(PROFILES), g \in Fields, v \in OverrideVals}
    \cup {TargetRec(p) : p \in 1..Len(PROFILES)}

InitRecord ==
    /\ arec \in RecordFamily
    /\ aop = "none"
    /\ aout = <<>>
    /\ NoNorm /\ NoPage /\ NoSelect /\ NoCall /\ NoCapture /\ NoDemo

\* prof_name, scores = assign_profile_from_record(record)
AssignProfile ==
    /\ aop = "none"
    /\ aop' = "assign"
    /\ aout' = [name |-> assign_profile_from_record(arec)]
    /\ FrameRecord

\* one iteration of the profile loop, for profile p
EvalProfile ==
    /\ aop = "none"
    /\ \E p \in 1..Len(PROFILES) :
          /\ aop' = "profile"
          /\ aout' = [p |-> p, e |-> ProfileEval(arec, PROFILES[p])]
    /\ FrameRecord

\* profile_dists = compute_profile_distances(record); sims; lik_pct
RankProfiles ==
    /\ aop = "none"
    /\ aop' = "ranking"
    /\ aout' = ProfileLikelihoods(compute_profile_distances(arec))
    /\ FrameRecord

\* profile_dists = compute_profile_distances(record)
ProfileDistances ==
    /\ aop = "none"
    /\ aop' = "distances"
    /\ aout' = compute_profile_distances(arec)
    /\ FrameRecord

\* s01 = compute_dimension_score(record, cfg, k_bump=0.8), for one dimension
DimensionScore ==
    /\ aop = "none"
    /\ \E k \in 1..Len(DIM_BAR_CONFIG) :
          /\ aop' = "dimension"
          /\ aout' = [dim |-> k,
                      base |-> DimBase(arec, DIM_BAR_CONFIG[k]),
                      boost |-> DimBoost(arec, DIM_BAR_CONFIG[k]),
                      score |-> compute_dimension_score(arec, DIM_BAR_CONFIG[k])]
    /\ FrameRecord

\* pop_medians: a median per dimension (tenths of a percent), None where the
\* population has no valid score; all None without population data
MedianVals == {0, 15, 20, 500, 980, 985, 1000}

MedianFamily ==
    {[k \in 1..Len(DIM_BAR_CONFIG) |-> IF k = hole THEN NoneV ELSE m] :
        m \in MedianVals, hole \in {0, 1, 3}}
    \cup {[k \in 1..Len(DIM_BAR_CONFIG) |-> NoneV]}

\* the live bar loop, then (when it did not raise) the export mirror loop
RenderBars ==
    /\ aop = "none"
    /\ \E medians \in MedianFamily :
          /\ aop' = "bars"
          /\ aout' = [medians |-> medians,
                      live |-> LiveBars(arec, medians, 1, FALSE, <<>>),
                      mirror |-> IF LiveBars(arec, medians, 1, FALSE, <<>>).raised
                                 THEN <<>> ELSE MirrorBars(arec, medians)]
    /\ FrameRecord

NextRecord ==
    \/ AssignProfile
    \/ EvalProfile
    \/ RankProfiles
    \/ ProfileDistances
    \/ DimensionScore
    \/ RenderBars

SpecRecord == InitRecord /\ [][NextRecord]_vars

-----------------------------------------------------------------------------
(* The keep-best scan of assign_profile_from_record on its own, over        *)
(* candidates whose distances are counted in units of 1/SelScale, fine      *)
(* enough to tell distances inside EPS = 1e-6 apart.                        *)

SelScale == 2000000
SelBase == 600000
MaxSel == 3
MaxSelStep == 4

\* distances around SelBase one unit apart, one far outside the near-tie
\* window, and an infinite one
SelDists == {SelBase + k : k \in 0..MaxSelStep} \cup {2 * SelBase, Inf}
SelRatios == {0, Unit \div 2, Unit}

InitSelect ==
    /\ pairs \in [1..MaxSel -> [d : SelDists, r : SelRatios]]
    /\ si = 0
    /\ sbest = NoBest
    /\ NoNorm /\ NoPage /\ NoRecord /\ NoCall /\ NoCapture /\ NoDemo

\* one pass of "keep best" for the next profile in registry order
SelectStep ==
    /\ si < Len(pairs)
    /\ si' = si + 1
    /\ sbest' = KeepBest(sbest, PROFILES[si + 1].name, pairs[si + 1].d, pairs[si + 1].r,
                         EpsUnits(SelScale))
    /\ FrameSelect

NextSelect == SelectStep

SpecSelect == InitSelect /\ [][NextSelect]_vars

-----------------------------------------------------------------------------
(* Claims about the page routing and the data-access client *)

\* the fetch produced no usable record
NoRecordObtained ==
    \/ idParam = "missing"
    \/ net.kind = "ok" /\ net.body = <<>>
    \/ net.kind \in {"timeout", "conn_error", "http_error", "bad_json", "json_object"}

PastRouting == pc \in {"render", "render_bars", "done", "halted", "crashed"}

\* C1: no report panel is rendered unless a non-empty record was obtained; when
\* the id parameter is missing, the lookup is empty or the fetch fails, the page
\* shows the "couldn't find your responses" message and halts; with no id no
\* HTTP request is issued.
C1_NoPanelWithoutRecord ==
    /\ (shown \cap ReportPanels # {}) => Truthy(record)
    /\ (PastRouting /\ NoRecordObtained) =>
          (pc = "halted" /\ "not_found" \in shown /\ shown \cap ReportPanels = {})
    /\ (idParam = "missing") => (posts = 0)

C1_Witness ==
    /\ pc = "halted" /\ idParam = "id" /\ posts = 1
    /\ net.kind = "ok" /\ net.body = <<>>
    /\ "not_found" \in shown

\* C2: fetch_by_record_id posts at most once per render, returns the first
\* element of the array on success, None on an empty array, a timeout or any
\* other exception, and never propagates an exception to its caller.
C2_FetchOnceFirstOrNone ==
    /\ posts <= 1
    /\ (posts = 1) =>
          /\ (net.kind = "ok" /\ Len(net.body) > 0) => record = net.body[1]
          /\ (net.kind = "ok" /\ Len(net.body) = 0) => record = "None"
          /\ (net.kind # "ok") => record = "None"
          /\ (step = 0) => (~raised /\ pc # "crashed")

C2_Witness ==
    /\ pc = "route" /\ posts = 1 /\ net.kind = "conn_error"
    /\ record = "None" /\ ~raised

-----------------------------------------------------------------------------
(* Claims about the normalizers *)

\* C7: every normalizer maps a raw value of any shape to a number in [0,1] or
\* to not-a-number; it never raises and never leaves [0,1].
C7_NormalizerRange ==
    (nfn # "none") => (nres = NaN \/ (0 <= nres /\ nres <= Unit))

C7_Witness ==
    /\ nfn = "norm_1_100" /\ nraw = RStr(120 * Unit) /\ nres = Unit

\* C8: norm_latency_auto with cap 60 reads "HH:MM" as hh*60+mm minutes, divides
\* a plain minute count outside [0,1] by 60 and clips it to [0,1]
\* ("1:05" -> 1.0, "45" -> 0.75), and returns a bare "0.5" unchanged.
C8_LatencyAuto ==
    (nfn = "norm_latency_auto") =>
        /\ (nraw.k = "shhmm") =>
              nres = (IF nraw.n * 60 + nraw.m >= 60 THEN Unit
                      ELSE ((nraw.n * 60 + nraw.m) * Unit) \div 60)
        /\ (nraw.k \in {"num", "snum"} /\ (nraw.n < 0 \/ nraw.n > Unit)) =>
              nres = (IF nraw.n < 0 THEN 0
                      ELSE IF nraw.n >= 60 * Unit THEN Unit
                      ELSE nraw.n \div 60)
        /\ (nraw.k = "snum" /\ 0 <= nraw.n /\ nraw.n <= Unit) => nres = nraw.n
        /\ (nraw = Raw("shhmm", 1, 5)) => nres = Unit
        /\ (nraw = RStr(45 * Unit)) => nres = (3 * Unit) \div 4
        /\ (nraw = RStr(Unit \div 2)) => nres = Unit \div 2

C8_Witness ==
    /\ nfn = "norm_latency_auto" /\ nraw = RStr(Unit \div 2) /\ nres = Unit \div 2

-----------------------------------------------------------------------------
(* Claims about profile assignment *)

SelFinite == {i \in 1..Len(pairs) : pairs[i].d # Inf}
SelMin == CHOOSE m \in {pairs[i].d : i \in SelFinite} : \A i \in SelFinite : m <= pairs[i].d

\* C3: the scan returns a profile whose penalized distance is within 1e-6 of
\* the minimum, and no profile within 1e-6 of the minimum has a strictly higher
\* hit ratio than the returned one.
C3_MinimumWithTieBreak ==
    (si = Len(pairs) /\ SelFinite # {}) =>
        /\ sbest.dist # Inf
        /\ sbest.dist - SelMin <= EpsUnits(SelScale)
        /\ \A j \in SelFinite :
              (pairs[j].d - SelMin <= EpsUnits(SelScale)) => pairs[j].r <= sbest.r

AllAtTarget ==
    /\ aop = "profile"
    /\ \A i \in 1..Len(PROFILES[aout.p].features) :
          aout.e.vals[i] = PROFILES[aout.p].features[i].target

\* C4: when every feature value of a profile equals its target, the weighted
\* distance is exactly zero and the hit ratio is 1.0 (every feature eligible
\* and hit, in both hit directions), so no penalty is applied.
C4_ExactMatch ==
    AllAtTarget =>
        /\ aout.e.d_raw = 0
        /\ aout.e.eligible = Len(PROFILES[aout.p].features)
        /\ aout.e.hits = aout.e.eligible
        /\ aout.e.r = Unit
        /\ aout.e.mult = PenUnit
        /\ aout.e.d = 0

C4_Witness ==
    /\ AllAtTarget
    /\ PROFILES[aout.p].name = "Quick Diver"
    /\ \E i, j \in 1..Len(PROFILES[aout.p].features) :
          /\ PROFILES[aout.p].features[i].hit_op = "lte"
          /\ PROFILES[aout.p].features[j].hit_op = ""

C6_MatchPercentages ==
    (aop = "ranking") =>
        /\ DOMAIN aout.sims = 1..12
        /\ aout.total > 0
        /\ SumSeq([i \in 1..12 |-> 100 * aout.sims[i]]) = 100 * aout.total
        /\ (\E i \in 1..12 : aout.d[i] # Inf) =>
              \A i \in 1..12 :
                  aout.sims[i] = IF aout.d[i] = Inf THEN 0
                                 ELSE (16 * Unit * Unit) \div (Unit + aout.d[i])
        /\ (\A i \in 1..12 : aout.d[i] = Inf) =>
              \A i \in 1..12 : 12 * 100 * aout.sims[i] = 100 * aout.total
        /\ \A i, j \in 1..12 : (aout.d[i] < aout.d[j]) => (aout.sims[i] > aout.sims[j])

C6_Witness ==
    /\ aop = "ranking"
    /\ \E i, j, k \in 1..12 :
          /\ aout.d[i] < aout.d[j] /\ aout.d[j] # Inf /\ aout.d[k] = Inf
          /\ aout.sims[i] > aout.sims[j] /\ aout.sims[k] = 0

FieldAbsent(f) == arec[f].k \in {"missing", "none", "sempty", "sna"}

\* C9: a norm_bool / norm_eq feature whose field is absent (missing, empty or
\* "NA") has the value not-a-number, so it is left out of the weighted distance
\* and is neither an eligible hit nor an eligible miss.
C9_AbsentFieldExcluded ==
    (aop = "profile") =>
        \A i \in 1..Len(PROFILES[aout.p].features) :
            (/\ PROFILES[aout.p].features[i].norm \in {"norm_bool", "norm_eq"}
             /\ FieldAbsent(PROFILES[aout.p].features[i].key[1]))
            => (aout.e.vals[i] = NaN /\ aout.e.h[i] = NoneV)

-----------------------------------------------------------------------------
(* Claims about the five dimension scores *)

\* C10: the score is base + 0.8*boost*base*(1-base) with boost in [0, 0.5]; it
\* equals base when boost = 0 and when base is 0 or 1, and base <= score <= 1
\* without the final clip having any effect.
C10_OneSidedAmplification ==
    (aop = "dimension" /\ aout.base # NaN) =>
        /\ 0 <= aout.boost /\ aout.boost <= Unit \div 2
        /\ 0 <= aout.base /\ aout.base <= Unit
        /\ aout.score # NaN
        /\ (aout.score - 25 * aout.base) * Unit
              <= 20 * aout.boost * ((aout.base * (Unit - aout.base)) \div Unit)
        /\ (aout.score - 25 * aout.base + 1) * Unit
              > 20 * aout.boost * ((aout.base * (Unit - aout.base)) \div Unit)
        /\ (aout.boost = 0) => aout.score = 25 * aout.base
        /\ (aout.base \in {0, Unit}) => aout.score = 25 * aout.base
        /\ 25 * aout.base <= aout.score /\ aout.score <= DimUnit

C10_Witness ==
    /\ aop = "dimension"
    /\ aout.base # NaN /\ 0 < aout.base /\ aout.base < Unit
    /\ aout.boost > 0
    /\ aout.score > 25 * aout.base /\ aout.score < DimUnit

-----------------------------------------------------------------------------
(* Claims about the dimension bar panel *)

\* a position that is not drawn, or lies within [2, 98] percent
InClamp(p) == p = NoneV \/ (2 * PctUnit <= p /\ p <= 98 * PctUnit)

\* C11: the position of the population-median marker and the position of the
\* participant's score tag are within [2, 98] percent in every row, on the live
\* page and in the export mirror.
C11_BarPositionsClamped ==
    (aop = "bars") =>
        /\ \A k \in 1..Len(aout.live.rows) :
              InClamp(aout.live.rows[k].marker) /\ InClamp(aout.live.rows[k].scoretag)
        /\ \A k \in 1..Len(aout.mirror) :
              InClamp(aout.mirror[k].marker) /\ InClamp(aout.mirror[k].scoretag)


-----------------------------------------------------------------------------
(* Claims about translation and the language remap *)

\* C12: tr returns the variant of the active language when the entry has one;
\* for an entry with only an English variant it returns the English text under
\* French or Spanish; for a key without an entry it returns the raw key.
C12_TrFallback ==
    (cfn = "tr") =>
        /\ (cin.entry.present /\ cin.LANG \in cin.entry.langs) =>
              cout.text = <<cin.key, cin.LANG>>
        /\ (cin.entry = Entry({"en"}) /\ cin.LANG \in {"fr", "es"}) =>
              cout.text = <<cin.key, "en">>
        /\ (~cin.entry.present) => cout.text = <<cin.key, "raw">>

C12_Witness ==
    /\ cfn = "tr" /\ cin.entry = Entry({"en"}) /\ cin.LANG = "fr"
    /\ cout.text = <<cin.key, "en">>

FrFlagTwo == IsTwo(DictGet(cin, Key("questionnaire_fr_complete", "")))
EnFlagTwo == IsTwo(DictGet(cin, Key("questionnaire_en_complete", "")))

\* every item of the fetched record with the given suffix is readable under
\* the un-suffixed key after the remap
ReadableUnsuffixed(suffix) ==
    \A i \in 1..Len(cin) :
        (cin[i].k.sfx = suffix) =>
            DictGet(cout.record, Key(cin[i].k.stem, "")) = cin[i].v

-----------------------------------------------------------------------------
(* Claims about the page without population data *)

\* C14: when the population CSV cannot be loaded the render does not abort: the
\* inline error is shown and the participant-only panels are still rendered to
\* the end of the page (no exception ends the run).
C14_PopulationMissingDegrades ==
    (~popOk /\ pc \in {"render", "render_bars", "done", "crashed"}) =>
        /\ "err_population" \in shown
        /\ ~raised
        /\ pc # "crashed"
        /\ (pc = "done") => ReportPanels \subseteq shown


\* a field that is absent, empty or not parsable as a number
FieldUnusable(x) == x.k \in {"missing", "none", "nan", "sempty", "sna", "stext"}

\* C15: a scored field that is absent, empty or unparsable (the sixteen
\* VVIQ items, creativity_trait, anxiety) resolves to NaN and is left out
\* of the aggregate; the render is never ended by an exception.
C15_FieldFailureNeverAborts ==
    /\ cfn # "raised"
    /\ cfn \in {"prep", "c1", "c2", "c3"} =>
        /\ \A i \in 1..Len(VVIQ_FIELDS) :
              FieldUnusable(cin.record[VVIQ_FIELDS[i]]) => np_isnan(cout.vviq_vals[i])
        /\ FieldUnusable(cin.record["creativity_trait"]) => np_isnan(cout.cre_part)
        /\ FieldUnusable(cin.record["anxiety"]) => np_isnan(cout.anx_part)

\* #export-root is visible: the inline style overrides the style sheet
MirrorVisible == cap.vis = "visible"

CaptureInProgress == \E i \in 1..Len(cap.runs) : cap.runs[i].pc # "done"

\* C16: the export mirror is visible only while a capture is in progress;
\* once every Download click has completed, with a download or with the
\* alert of a failed capture, the mirror is hidden again.
C16_MirrorHiddenAfterCapture == MirrorVisible => CaptureInProgress

DemoRouted == demo.pc \in {"caption", "means", "radar", "bars", "done", "stopped", "raised"}

CredentialsAbsent == Falsy(demo.url) \/ Falsy(demo.token)

\* C17: on the demo page a truthy `demo` flag forces the fallback record,
\* also with credentials present; absent credentials without the flag give
\* a warning and a halt; in every combination the page either halts with a
\* message or has a defined record before the first chart is computed.
C17_DemoRecordOrHalt ==
    /\ demo.raised = "none"
    /\ (DemoRouted /\ DemoFlag(demo.q)) => demo.record = demo_record
    /\ (DemoRouted /\ CredentialsAbsent /\ ~DemoFlag(demo.q)) =>
            demo.pc = "stopped" /\ demo.shown = <<"warning">>
    /\ demo.pc \in {"means", "radar", "bars", "done"} => demo.record # Undefined

\* the profiles the loop of assign_profile_from_record does not skip
AssignConsidered(rec) ==
    {i \in 1..Len(PROFILES) :
        Len(PROFILES[i].features) > 0 /\ PassesGuards(rec, PROFILES[i])}

\* the profile assign_profile_from_record returns is among dists, with the
\* distance it was kept with
BestInDists(best, dists) ==
    (best.name # "None") =>
        \E i \in DOMAIN dists : PROFILES[i].name = best.name /\ dists[i] = best.dist

\* C18: compute_profile_distances returns exactly the profiles that
\* assign_profile_from_record considers (same must / veto filtering), each
\* with the penalized distance assign_profile_from_record compares for it.
C18_DistancesMatchAssignment ==
    (aop = "distances") =>
        /\ DOMAIN aout = AssignConsidered(arec)
        /\ \A i \in DOMAIN aout : aout[i] = ProfileEval(arec, PROFILES[i]).d
        /\ BestInDists(AssignLoop(arec, PROFILES, 1, NoBest), aout)

\* a record for which some profile's distance is penalized, and one for
\* which it is not
C18_Witness ==
    /\ aop = "distances"
    /\ \E i \in DOMAIN aout :
          /\ ProfileEval(arec, PROFILES[i]).mult > PenUnit
          /\ aout[i] # Inf /\ aout[i] > ProfileEval(arec, PROFILES[i]).d_raw
    /\ \E j \in DOMAIN aout :
          /\ ProfileEval(arec, PROFILES[j]).mult = PenUnit
          /\ aout[j] # Inf /\ aout[j] > 0

\* the scan is over: sbest.name is the profile named in the header
HeaderAssigned == si = Len(pairs) /\ sbest.name # "None"

\* bar j of the ranking is strictly taller than a bar of distance d: the
\* percentage is 100 * (1/(1+d)) / total, strictly decreasing in d
TallerThan(j, d) == pairs[j].d < d

C20_AbsentFieldConditionFalse ==
    /\ (cfn = "_eval_condition" /\ FieldUnusable(cin.rec["x"])) => ~cout.result
    /\ (cfn = "_eval_guard") =>
          cout.result =
              CASE cin.rule.group = "all" ->
                       \A i \in 1..Len(cin.rule.conds) :
                           _eval_condition(cin.rec, cin.rule.conds[i])
                [] cin.rule.group = "any" ->
                       \E i \in 1..Len(cin.rule.conds) :
                           _eval_condition(cin.rec, cin.rule.conds[i])
                [] OTHER -> _eval_condition(cin.rec, cin.rule.conds[1])

\* some gate of the feature fails on the record
GateFails(rec, feat) ==
    \/ \E i \in 1..Len(feat.only_if) : ~_eval_condition(rec, feat.only_if[i])
    \/ \E i \in 1..Len(feat.only_if_all) : ~_eval_condition(rec, feat.only_if_all[i])
    \/ /\ Len(feat.only_if_any) > 0
       /\ \A i \in 1..Len(feat.only_if_any) : ~_eval_condition(rec, feat.only_if_any[i])

\* a short-circuit condition of the feature holds on the record
ShortcircuitHolds(rec, feat) ==
    \/ \E i \in 1..Len(feat.or_if_any) : _eval_condition(rec, feat.or_if_any[i])
    \/ /\ Len(feat.or_if_all) > 0
       /\ \A i \in 1..Len(feat.or_if_all) : _eval_condition(rec, feat.or_if_all[i])

\* a field the record has a value for
Present(x) == x.k \notin {"missing", "none", "sempty", "sna"}

\* the first alias of the feature that the record has a value for; NaN when
\* it has a value for neither
FirstPresentAlias(rec, feat) ==
    IF Present(rec[feat.key[1]]) THEN rec[feat.key[1]]
    ELSE IF Present(rec[feat.key[2]]) THEN rec[feat.key[2]]
    ELSE RNaN

\* C21: a failing gate gives not-a-number even when a short-circuit
\* condition holds; otherwise a firing short-circuit gives or_value
\* (default: the target) clipped to [0,1] whatever the field holds;
\* otherwise the value is the normalized value of the first present alias.
C21_FeatureValuePrecedence ==
    (cfn = "_feature_value_from_record") =>
        /\ GateFails(cin.rec, cin.feat) => np_isnan(cout.v)
        /\ (~GateFails(cin.rec, cin.feat) /\ ShortcircuitHolds(cin.rec, cin.feat)) =>
              cout.v = np_clip(IF cin.feat.or_value = NoneV THEN cin.feat.target
                               ELSE cin.feat.or_value, 0, Unit)
        /\ (~GateFails(cin.rec, cin.feat) /\ ~ShortcircuitHolds(cin.rec, cin.feat)) =>
              cout.v = IF cin.feat.norm = ""
                       THEN np_clip(_to_float(FirstPresentAlias(cin.rec, cin.feat)), 0, Unit)
                       ELSE CallNorm(cin.feat.norm, cin.feat.kw,
                                     FirstPresentAlias(cin.rec, cin.feat))

\* the gate fails while the short-circuit condition holds and the field has
\* a value
C21_Witness ==
    /\ cfn = "_feature_value_from_record"
    /\ GateFails(cin.rec, cin.feat) /\ ShortcircuitHolds(cin.rec, cin.feat)
    /\ cin.rec["x"].k = "snum"
    /\ np_isnan(cout.v)

\* the features of fs that have a value
Valued(fs) == {i \in 1..Len(fs) : ~np_isnan(fs[i].v)}

\* sum(w * (v - t)^2) and sum(w) over the features that have a value
SquareSum(fs) ==
    SumSeq([i \in 1..Len(fs) |->
              IF i \in Valued(fs) THEN fs[i].w * (fs[i].v - fs[i].t) * (fs[i].v - fs[i].t)
              ELSE 0])

WeightSum(fs) == SumSeq([i \in 1..Len(fs) |-> IF i \in Valued(fs) THEN fs[i].w ELSE 0])

\* C22: features without a value, whatever their weights and targets, leave
\* the distance unchanged; the distance is sqrt(sum(w*(v-t)^2)/sum(w)) over
\* the features with a value (here: its whole part, in 1/Unit), and it is
\* infinite exactly when no feature has a value.
C22_DistanceIgnoresAbsent ==
    (cfn = "_weighted_nanaware_distance") =>
        /\ cout.extended = cout.base
        /\ (cout.base = Inf) <=> (Valued(cin.base) = {})
        /\ (cout.base # Inf) =>
              /\ cout.base >= 0
              /\ cout.base * cout.base * WeightSum(cin.base) <= SquareSum(cin.base)
              /\ SquareSum(cin.base)
                    < (cout.base + 1) * (cout.base + 1) * WeightSum(cin.base)

\* two valued features at different distances from their targets, and
\* features without a value carrying weight
C22_Witness ==
    /\ cfn = "_weighted_nanaware_distance"
    /\ Cardinality(Valued(cin.base)) = 2
    /\ cin.base[1].w # cin.base[2].w
    /\ Len(cin.extra) = MaxExtra /\ cin.extra[1].w = 30 /\ cin.extra[1].t = 0
    /\ cout.base > 0 /\ cout.extended = cout.base

\* what a row shows: fill width, score tag text and position, median-dot
\* position, and the placement of the "world average" label
RowShown(row) ==
    <<row.fill, row.score_txt, row.scoretag, row.marker, row.mediantag, row.below>>

\* C23: the export mirror shows the same five bars as the live page (same
\* fill width, score-tag text and position, median-dot position and
\* placement of the Vivid "world average" label), the label being below
\* exactly when the clamped label positions are within 9 percentage points.
C23_MirrorMatchesLive ==
    (aop = "bars" /\ ~aout.live.raised) =>
        /\ Len(aout.mirror) = Len(aout.live.rows)
        /\ \A k \in 1..Len(aout.mirror) :
              /\ RowShown(aout.mirror[k]) = RowShown(aout.live.rows[k])
              /\ aout.mirror[k].below <=>
                    Overlap(aout.mirror[k].scoretag, aout.mirror[k].mediantag, 9)
              /\ aout.live.rows[k].below <=>
                    Overlap(aout.live.rows[k].scoretag, aout.live.rows[k].mediantag, 9)

\* the axes of the radar the record has a rating for
AxesPresent == {i \in 1..Len(FIELDS) : cin[FIELDS[i]].k \in {"snum", "num"}}

\* C24: a missing axis of the radar is filled with the participant's own
\* mean over the axes that are present; with all seven missing every axis is
\* the midpoint of the 1-6 scale; the polygon has seven defined values and
\* is closed.
C24_RadarFill ==
    (cfn = "radar") =>
        /\ Len(cout.values) = Len(FIELDS) + 1
        /\ cout.values[Len(FIELDS) + 1] = cout.values[1]
        /\ \A i \in 1..Len(FIELDS) : ~np_isnan(cout.values[i])
        /\ \A i \in AxesPresent : cout.values[i] = cin[FIELDS[i]].n
        /\ (AxesPresent # {}) =>
              \A i \in (1..Len(FIELDS)) \ AxesPresent :
                  cout.values[i] =
                      SumSeq([j \in 1..Len(FIELDS) |->
                                IF j \in AxesPresent THEN cin[FIELDS[j]].n ELSE 0])
                          \div Cardinality(AxesPresent)
        /\ (AxesPresent = {}) =>
              \A i \in 1..Len(FIELDS) : 2 * cout.values[i] = (1 + 6) * Unit

\* the timed concepts of the record with frequency and timing both present
\* and the timing in 1..100, and the half the timing puts them in
Timed == {TIME_VARS[i][2] : i \in 1..Len(TIME_VARS)}
TimingOf(c) == cin.rec[<<"timequest_", c>>]
FrequencyOf(c) == cin.rec[<<"freq_", c>>]
Paired ==
    {c \in Timed : /\ TimingOf(c).k \in {"num", "snum"} /\ FrequencyOf(c).k \in {"num", "snum"}
                   /\ TimingOf(c).n >= 1 * Unit /\ TimingOf(c).n <= 100 * Unit}
HalfOf(c) == IF TimingOf(c).n <= 50 * Unit THEN 1 ELSE 2
InHalf(i) == {c \in Paired : HalfOf(c) = i}
LabelOf(c) == <<<<"LBL_", "freq_", c>>, cin.LANG>>
\* d is displayed before c: more frequent, or as frequent with the smaller label
Ahead(d, c) ==
    \/ FrequencyOf(d).n > FrequencyOf(c).n
    \/ FrequencyOf(d).n = FrequencyOf(c).n /\ TextLess(LabelOf(d), LabelOf(c))
Place(i, c) == Cardinality({d \in InHalf(i) : Ahead(d, c)}) + 1

C26_LatencyMonotone ==
    (cfn = "norm_latency_auto") => cout.m1 <= cout.m2

\* C27: for every whole timing t in 1..100 exactly one of the gates
\* between [0, 0.50] and between [0.51, 1] on norm_1_100(t) holds: the early
\* gate exactly for t in 1..50, the late gate exactly for t in 51..100, the
\* split of the dynamics timeline.
C27_GatesPartitionTimings ==
    (cfn = "gates") =>
        /\ cout.early <=> (cin.t.n >= bins[1][1] /\ cin.t.n <= bins[1][2])
        /\ cout.late <=> (cin.t.n >= bins[2][1] /\ cin.t.n <= bins[2][2])
        /\ cout.early # cout.late

\* C28: assign_profile_from_record returns the name of one of the twelve
\* profiles of the registry for every record, a record with every scored
\* field absent or unparsable included.
C28_ProfileAlwaysAssigned ==
    (aop = "assign") => \E p \in 1..Len(PROFILES) : aout.name = PROFILES[p].name

\* both Download clicks have run to completion, each with a download
BothDownloaded ==
    /\ Len(cap.runs) = MaxClicks
    /\ \A i \in 1..Len(cap.runs) : cap.runs[i].pc = "done"
    /\ cap.downloads = MaxClicks

\* C29: two Download clicks whose capture() runs overlap do not leave the
\* export mirror exposed: once both runs have finished the mirror is hidden
\* again (two runs that do not overlap and both download always restore it,
\* so the case is that of overlapping runs).
C29_OverlappingCapturesRestore == BothDownloaded => ~MirrorVisible

\* every item of the fetched record whose key does not end in the suffix and
\* has no counterpart with the suffix is in the remapped record, unchanged
KeptUnsuffixed(suffix) ==
    \A i \in 1..Len(cin) :
        (/\ cin[i].k.sfx # suffix
         /\ ~HasKey(cin, Key(cin[i].k.stem, suffix))) =>
            /\ HasKey(cout.record, cin[i].k)
            /\ DictGet(cout.record, cin[i].k) = cin[i].v

\* C30: the language remap only adds un-suffixed copies and loses no data:
\* after the _fr (or _en) remap every field that does not end in the suffix
\* and has no suffixed counterpart is still in the record with its original
\* value, wherever it sits in the key order.
C30_RemapKeepsOtherFields ==
    (cfn = "remap") =>
        /\ FrFlagTwo => KeptUnsuffixed("_fr")
        /\ (EnFlagTwo /\ ~FrFlagTwo) => KeptUnsuffixed("_en")

=============================================================================
